---- MODULE Spec2Model ----
(***************************************************************************)
(* Model of the meeting_tool scheduling backend: the conflict detector,    *)
(* the availability evaluator and the slot suggester of                    *)
(* apps/meetings/services.py, over the rows that the request handlers of   *)
(* apps/meetings/views.py store.                                           *)
(*                                                                         *)
(* Time is counted in seconds.  An instant is the number of seconds since  *)
(* 00:00 UTC of day 0, and day 0 is a Monday.  A timezone-aware datetime   *)
(* is a record [t, off]: the instant and the UTC offset of the zone the    *)
(* datetime is expressed in.  The zones used have no daylight saving, so   *)
(* a zone is its offset.                                                   *)
(***************************************************************************)
EXTENDS Integers, Sequences, FiniteSets, TLC

VARIABLES now, meetings, participantRows, blockedTimes, availabilities, resp,
          accepted, preferences, notifications, deliveries, runs

vars == <<now, meetings, participantRows, blockedTimes, availabilities, resp,
          accepted, preferences, notifications, deliveries, runs>>

\* the rows and the task state of the notifications app, and the responses of
\* participants
notification_vars == <<accepted, preferences, notifications, deliveries, runs>>

(***************************************************************************)
(* Bounds of the model.                                                    *)
(***************************************************************************)
MaxMeetings == 2
MaxBlocked == 1
MaxAvail == 2
MaxTicks == 1

(***************************************************************************)
(* datetime, date and time arithmetic.                                     *)
(***************************************************************************)
Minutes(n) == n * 60
Hours(n) == n * 3600
Days(n) == n * 86400

\* time(h, m) as seconds since local midnight
time(h, m) == Hours(h) + Minutes(m)

\* the instant at which the clock of a zone with offset off shows h:m on date d
\* (tz.localize(datetime.combine(d, time(h, m))))
localize(d, tod, off) == [t |-> Days(d) + tod - off, off |-> off]

TzOffset(tz) ==
    CASE tz = "Africa/Nairobi" -> Hours(3)
      [] tz = "Asia/Tokyo" -> Hours(9)
      [] tz = "UTC" -> 0

astimezone(dt, tz) == [t |-> dt.t, off |-> TzOffset(tz)]

\* dt.date() and dt.time(): the civil date and time in the datetime's own zone
DateOf(dt) == (dt.t + dt.off) \div Days(1)
TimeOf(dt) == (dt.t + dt.off) % Days(1)

\* date.weekday(): 0 = Monday .. 6 = Sunday
weekday(d) == d % 7

\* dt + timedelta(seconds = n)
Plus(dt, n) == [t |-> dt.t + n, off |-> dt.off]

NULL == 0 - 1

\* the value a local variable is bound to: the element of a one-element set
Only(S) == CHOOSE x \in S : TRUE

(***************************************************************************)
(* Users.  Every user row carries one timezone.                            *)
(***************************************************************************)
Users == {"u1", "u2"}

UserTimezone(u) == IF u = "u1" THEN "Africa/Nairobi" ELSE "Asia/Tokyo"

Timezones == {"Africa/Nairobi", "Asia/Tokyo", "UTC"}

\* timezone.now().date(): the UTC date of the current instant
\* a current date that changes at 18:00 instead of midnight
today_evening == (now + Hours(6)) \div Days(1)

today == now \div Days(1)

(***************************************************************************)
(* ConflictDetector (apps/meetings/services.py).  A detector is a user and *)
(* the timezone it was constructed with.                                   *)
(***************************************************************************)
NoUser == "-"
NoId == 0

\* Meeting LEFT OUTER JOIN MeetingParticipant, the join behind
\* Q(organizer=user) | Q(participants=user): one row <<meeting, participant>>
\* per participant row, and one row with no participant for a meeting without any
MeetingJoinRows ==
    {<<r.meeting, r.user>> : r \in participantRows}
        \cup {<<i, NoUser>> : i \in {j \in DOMAIN meetings :
                                        ~\E r \in participantRows : r.meeting = j}}

\* ConflictRows with the bounds of the overlap test included
ConflictRows_inclusive(user, start_time, end_time) ==
    {r \in MeetingJoinRows :
        /\ (meetings[r[1]].organizer = user \/ r[2] = user)
        /\ meetings[r[1]].is_deleted = FALSE
        /\ meetings[r[1]].status \in {"scheduled", "in_progress"}
        /\ meetings[r[1]].start_time <= end_time.t
        /\ meetings[r[1]].end_time >= start_time.t}

\* the rows the filter of check_conflicts keeps
ConflictRows(user, start_time, end_time) ==
    {r \in MeetingJoinRows :
        /\ (meetings[r[1]].organizer = user \/ r[2] = user)
        /\ meetings[r[1]].is_deleted = FALSE
        /\ meetings[r[1]].status \in {"scheduled", "in_progress"}
        /\ meetings[r[1]].start_time < end_time.t
        /\ meetings[r[1]].end_time > start_time.t}

\* a result set as a bag of meetings: meeting id -> number of result rows
SelectMeetings(rows) ==
    [i \in {r[1] : r \in rows} |-> Cardinality({r \in rows : r[1] = i})]

\* distinct() left out
distinct_omitted(qs) == qs

distinct(qs) == [i \in DOMAIN qs |-> 1]

exclude(qs, id) == [i \in DOMAIN qs \ {id} |-> qs[i]]

\* list(queryset) under Meeting.Meta.ordering = ['-start_time']
RECURSIVE list(_)
list(qs) ==
    IF DOMAIN qs = {} THEN <<>>
    ELSE LET first == CHOOSE i \in DOMAIN qs : \A j \in DOMAIN qs :
                          \/ meetings[i].start_time > meetings[j].start_time
                          \/ (meetings[i].start_time = meetings[j].start_time /\ i <= j)
         IN [k \in 1..qs[first] |-> first] \o list([i \in DOMAIN qs \ {first} |-> qs[i]])

check_conflicts(user, start_time, end_time, exclude_meeting_id) ==
    LET conflicts == distinct(SelectMeetings(ConflictRows(user, start_time, end_time)))
    IN IF exclude_meeting_id # NoId
       THEN list(exclude(conflicts, exclude_meeting_id))
       ELSE list(conflicts)

\* list(queryset) under BlockedTime.Meta.ordering = ['start_datetime']
RECURSIVE listBlocked(_)
listBlocked(ids) ==
    IF ids = {} THEN <<>>
    ELSE LET first == CHOOSE i \in ids : \A j \in ids :
                          \/ blockedTimes[i].start_datetime < blockedTimes[j].start_datetime
                          \/ (blockedTimes[i].start_datetime = blockedTimes[j].start_datetime
                                /\ i <= j)
         IN <<first>> \o listBlocked(ids \ {first})

check_blocked_times(user, start_time, end_time) ==
    listBlocked({i \in DOMAIN blockedTimes :
                    /\ blockedTimes[i].user = user
                    /\ blockedTimes[i].start_datetime < end_time.t
                    /\ blockedTimes[i].end_datetime > start_time.t})

\* _is_time_within_availability without the effective_until filter
_is_time_within_availability_expired(user, day_of_week, start_time, end_time) ==
    LET rows == {i \in DOMAIN availabilities :
                    /\ availabilities[i].user = user
                    /\ availabilities[i].day_of_week = day_of_week
                    /\ availabilities[i].is_active = TRUE
                    /\ (availabilities[i].effective_from = NULL
                          \/ availabilities[i].effective_from <= today)}
    IN IF rows = {}
       THEN start_time >= time(8, 0) /\ end_time <= time(18, 0)
       ELSE \E i \in rows : /\ start_time >= availabilities[i].start_time
                            /\ end_time <= availabilities[i].end_time

_is_time_within_availability(user, day_of_week, start_time, end_time) ==
    LET rows == {i \in DOMAIN availabilities :
                    /\ availabilities[i].user = user
                    /\ availabilities[i].day_of_week = day_of_week
                    /\ availabilities[i].is_active = TRUE
                    /\ (availabilities[i].effective_from = NULL
                          \/ availabilities[i].effective_from <= today)
                    /\ (availabilities[i].effective_until = NULL
                          \/ availabilities[i].effective_until >= today)}
    IN IF rows = {}
       THEN start_time >= time(8, 0) /\ end_time <= time(18, 0)
       ELSE \E i \in rows : /\ start_time >= availabilities[i].start_time
                            /\ end_time <= availabilities[i].end_time

\* _is_day_available with every day tested on the weekday of the first day
_is_day_available_first_weekday(user, date, start_dt, end_dt) ==
    LET day_of_week == weekday(DateOf(start_dt))
        day_start == IF date = DateOf(start_dt) THEN TimeOf(start_dt) ELSE time(0, 0)
        day_end == IF date = DateOf(end_dt) THEN TimeOf(end_dt) ELSE time(23, 59)
    IN _is_time_within_availability(user, day_of_week, day_start, day_end)

_is_day_available(user, date, start_dt, end_dt) ==
    LET day_of_week == weekday(date)
        day_start == IF date = DateOf(start_dt) THEN TimeOf(start_dt) ELSE time(0, 0)
        day_end == IF date = DateOf(end_dt) THEN TimeOf(end_dt) ELSE time(23, 59)
    IN _is_time_within_availability(user, day_of_week, day_start, day_end)

\* the while loop of check_availability_window, from current_date on
RECURSIVE AvailableFrom(_, _, _, _)
AvailableFrom(user, current_date, local_start, local_end) ==
    IF current_date <= DateOf(local_end)
    THEN IF ~_is_day_available(user, current_date, local_start, local_end)
         THEN FALSE
         ELSE AvailableFrom(user, current_date + 1, local_start, local_end)
    ELSE TRUE

check_availability_window(user, tz, start_time, end_time) ==
    LET day_of_week == weekday(DateOf(start_time))
        local_start == astimezone(start_time, tz)
        local_end == astimezone(end_time, tz)
    IN IF DateOf(local_start) # DateOf(local_end)
       THEN AvailableFrom(user, DateOf(local_start), local_start, local_end)
       ELSE _is_time_within_availability(user, day_of_week,
                                         TimeOf(local_start), TimeOf(local_end))

\* get_all_conflicts with has_conflicts also set by a window outside availability
get_all_conflicts_availability(user, tz, start_time, end_time, exclude_meeting_id) ==
    Only({[conflicting_meetings |-> conflicting_meetings,
           blocked_times |-> blocked_times,
           within_availability |-> within_availability,
           has_conflicts |-> \/ conflicting_meetings # <<>>
                             \/ blocked_times # <<>>
                             \/ ~within_availability] :
            conflicting_meetings \in
                {check_conflicts(user, start_time, end_time, exclude_meeting_id)},
            blocked_times \in {check_blocked_times(user, start_time, end_time)},
            within_availability \in
                {check_availability_window(user, tz, start_time, end_time)}})

get_all_conflicts(user, tz, start_time, end_time, exclude_meeting_id) ==
    Only({[conflicting_meetings |-> conflicting_meetings,
           blocked_times |-> blocked_times,
           within_availability |-> within_availability,
           has_conflicts |-> conflicting_meetings # <<>> \/ blocked_times # <<>>] :
            conflicting_meetings \in
                {check_conflicts(user, start_time, end_time, exclude_meeting_id)},
            blocked_times \in {check_blocked_times(user, start_time, end_time)},
            within_availability \in
                {check_availability_window(user, tz, start_time, end_time)}})

(***************************************************************************)
(* SlotSuggester (apps/meetings/services.py).  A suggester is a list of    *)
(* users, a duration in seconds and the timezone it was constructed with.  *)
(***************************************************************************)
MaxScan == 8
MaxAdvances == 2
MaxRuns == 2
MaxQuarters == 1

Min(a, b) == IF a <= b THEN a ELSE b

\* the timezone of the detector built for a user of the suggester:
\* ConflictDetector(user, str(self.tz))
SlotDetectorTz(user, tz) == tz

\* the user is appended to unavailable_users
SlotUnavailable(conflicts) ==
    conflicts.has_conflicts \/ ~conflicts.within_availability

_check_slot_for_all_users(users, tz, start_time, end_time) ==
    Only({[is_available |-> Len(unavailable_users) = 0,
           unavailable_users |-> unavailable_users] :
            unavailable_users \in
                {SelectSeq(users, LAMBDA user :
                    SlotUnavailable(get_all_conflicts(user, SlotDetectorTz(user, tz),
                                                      start_time, end_time, NoId)))}})

\* the while loop of _get_available_slots_for_day, from current_time on
RECURSIVE SlotsFrom(_, _, _, _, _)
SlotsFrom(users, tz, duration, date, current_time) ==
    LET end_time == localize(date, time(18, 0), TzOffset(tz))
        slot_end == Plus(current_time, duration)
    IN IF slot_end.t <= end_time.t
       THEN LET rest == SlotsFrom(users, tz, duration, date,
                                  Plus(current_time, Minutes(30)))
            IN IF _check_slot_for_all_users(users, tz, current_time, slot_end).is_available
               THEN <<[start_time |-> current_time,
                       end_time |-> slot_end,
                       duration_minutes |-> duration \div 60,
                       all_available |-> TRUE,
                       date |-> date]>> \o rest
               ELSE rest
       ELSE <<>>

\* _get_available_slots_for_day with the first candidate at 08:15
_get_available_slots_for_day_quarter(users, tz, duration, date) ==
    SlotsFrom(users, tz, duration, date, localize(date, time(8, 15), TzOffset(tz)))

_get_available_slots_for_day(users, tz, duration, date) ==
    SlotsFrom(users, tz, duration, date, localize(date, time(8, 0), TzOffset(tz)))

\* Monday to Saturday
IsWeekday_saturday(current_date) == weekday(current_date) <= 5

\* Monday to Friday
IsWeekday(current_date) == weekday(current_date) < 5

\* the while loop of suggest_slots, from current_date on
RECURSIVE SuggestFrom(_, _, _, _, _, _, _)
SuggestFrom(users, tz, duration, current_date, end_date, num_suggestions, suggestions) ==
    IF current_date <= end_date /\ Len(suggestions) < num_suggestions
    THEN Only({SuggestFrom(users, tz, duration, current_date + 1, end_date,
                           num_suggestions, extended) :
                extended \in
                    {IF IsWeekday(current_date)
                     THEN suggestions
                            \o _get_available_slots_for_day(users, tz, duration, current_date)
                     ELSE suggestions}})
    ELSE suggestions

\* suggest_slots without the final suggestions[:num_suggestions]
suggest_slots_untruncated(users, tz, duration, preferred_date, num_suggestions, days_to_search) ==
    SuggestFrom(users, tz, duration, preferred_date, preferred_date + days_to_search,
                num_suggestions, <<>>)

suggest_slots(users, tz, duration, preferred_date, num_suggestions, days_to_search) ==
    Only({SubSeq(suggestions, 1, Min(num_suggestions, Len(suggestions))) :
            suggestions \in
                {SuggestFrom(users, tz, duration, preferred_date,
                             preferred_date + days_to_search, num_suggestions, <<>>)}})

\* dt.replace(hour=h, minute=m): the date, the second and the zone are kept
ReplaceHourMinute(dt, h, m) ==
    [t |-> Days(DateOf(dt)) + time(h, m) + (TimeOf(dt) % 60) - dt.off, off |-> dt.off]

\* dt.replace(minute=m, second=0, microsecond=0)
ReplaceMinute(dt, m) ==
    [t |-> Days(DateOf(dt)) + Hours(TimeOf(dt) \div 3600) + Minutes(m) - dt.off,
     off |-> dt.off]

\* "Round to next 30-minute slot"
RoundToSlot(current_time) ==
    LET minutes == (TimeOf(current_time) % 3600) \div 60
    IN IF minutes % 30 # 0
       THEN LET replaced == ReplaceMinute(current_time, ((minutes \div 30 + 1) * 30) % 60)
            IN IF minutes >= 30 THEN Plus(replaced, Hours(1)) ELSE replaced
       ELSE current_time

\* one pass through the body of the while loop of find_next_available_slot:
\* "continue" after a move to the next day or to Monday, "return" with the
\* slot tested, or "advance" by 30 minutes past the slot tested
ScanIteration(users, tz, duration, current_time) ==
    Only({IF TimeOf(astimezone(rounded, tz)) >= time(18, 0)
          THEN [kind |-> "continue",
                current_time |-> ReplaceHourMinute(Plus(rounded, Days(1)), 8, 0),
                tested |-> <<>>]
          ELSE Only({IF weekday(DateOf(snapped)) >= 5
                     THEN LET w == weekday(DateOf(snapped))
                              days_until_monday ==
                                  IF (7 - w) % 7 # 0 THEN (7 - w) % 7 ELSE 7
                          IN [kind |-> "continue",
                              current_time |->
                                  ReplaceHourMinute(Plus(snapped, Days(days_until_monday)),
                                                    8, 0),
                              tested |-> <<>>]
                     ELSE IF _check_slot_for_all_users(users, tz, snapped,
                                                       Plus(snapped, duration)).is_available
                     THEN [kind |-> "return", current_time |-> snapped,
                           tested |-> <<snapped>>]
                     ELSE [kind |-> "advance",
                           current_time |-> Plus(snapped, Minutes(30)),
                           tested |-> <<snapped>>] :
                       snapped \in
                          {IF TimeOf(astimezone(rounded, tz)) < time(8, 0)
                           THEN ReplaceHourMinute(rounded, 8, 0)
                           ELSE rounded}}) :
            rounded \in {RoundToSlot(current_time)}})

\* the dict find_next_available_slot returns for the slot that starts at start_time
FoundSlot(start_time, duration) ==
    [start_time |-> start_time,
     end_time |-> Plus(start_time, duration),
     duration_minutes |-> duration \div 60,
     all_available |-> TRUE]

\* the while loop of find_next_available_slot, from current_time on; fuel counts
\* the iterations the model follows, and returned is FALSE when it runs out
RECURSIVE FindFrom(_, _, _, _, _, _)
FindFrom(users, tz, duration, current_time, end_search, fuel) ==
    IF ~(current_time.t < end_search.t) THEN [returned |-> TRUE, slot |-> <<>>]
    ELSE IF fuel = 0 THEN [returned |-> FALSE, slot |-> <<>>]
    ELSE Only({IF pass.kind = "return"
               THEN [returned |-> TRUE,
                     slot |-> <<FoundSlot(pass.current_time, duration)>>]
               ELSE FindFrom(users, tz, duration, pass.current_time, end_search,
                             fuel - 1) :
                 pass \in {ScanIteration(users, tz, duration, current_time)}})

find_next_available_slot(users, tz, duration, after_time, max_days) ==
    FindFrom(users, tz, duration, after_time, Plus(after_time, Days(max_days)), MaxScan)

(***************************************************************************)
(* check_meeting_conflicts (apps/meetings/services.py).  meeting_data is a *)
(* record; a key the dict lacks holds NoDatetime, <<>> or NoId.            *)
(***************************************************************************)
NoDatetime == [t |-> NULL, off |-> NULL]

full_name(u) == u

\* the timezone of the detector built for the organizer and for a participant:
\* ConflictDetector(user, user.timezone)
PersonDetectorTz(user) == UserTimezone(user)

\* User.objects.get(id=participant_id) succeeds
Resolvable(participant_ids) ==
    {participant_ids[k] : k \in 1..Len(participant_ids)} \cap Users

\* list(User.objects.filter(id__in=participant_ids))
RECURSIVE UserList(_)
UserList(ids) ==
    IF ids = {} THEN <<>>
    ELSE LET first == CHOOSE u \in ids : \A v \in ids : u = v \/ u = "u1"
         IN <<first>> \o UserList(ids \ {first})

\* every resolvable participant is kept
RetainsParticipant_all(conflicts) == TRUE

\* "if conflicts['has_conflicts']": the participant gets an entry
RetainsParticipant(conflicts) == conflicts.has_conflicts

\* the suggester is called for every candidate
NeedsSuggestions_always(organizer_conflicts, participant_conflicts) == TRUE

\* "if organizer_conflicts['has_conflicts'] or participant_conflicts"
NeedsSuggestions(organizer_conflicts, participant_conflicts) ==
    organizer_conflicts.has_conflicts \/ DOMAIN participant_conflicts # {}

check_meeting_conflicts(meeting_data, user) ==
    LET start_time == meeting_data.start_time
        end_time == IF meeting_data.end_time # NoDatetime
                    THEN meeting_data.end_time
                    ELSE Plus(start_time, Minutes(meeting_data.duration_minutes))
        exclude_id == meeting_data.exclude_meeting_id
        participant_ids == meeting_data.participants
    IN Only({[organizer_conflicts |-> organizer_conflicts,
              participant_conflicts |-> participant_conflicts,
              has_any_conflicts |->
                 organizer_conflicts.has_conflicts \/ DOMAIN participant_conflicts # {},
              suggested_alternatives |->
                 IF NeedsSuggestions(organizer_conflicts, participant_conflicts)
                 THEN suggest_slots(<<user>> \o UserList(Resolvable(participant_ids)),
                                    UserTimezone(user),
                                    Minutes(meeting_data.duration_minutes),
                                    DateOf(start_time), 5, 7)
                 ELSE <<>>] :
               organizer_conflicts \in
                  {get_all_conflicts(user, PersonDetectorTz(user), start_time, end_time,
                                     exclude_id)},
               participant_conflicts \in
                  {Only({[p \in {q \in DOMAIN report : RetainsParticipant(report[q])} |->
                            [user |-> full_name(p), conflicts |-> report[p]]] :
                         report \in
                            {[p \in Resolvable(participant_ids) |->
                                 get_all_conflicts(p, PersonDetectorTz(p), start_time,
                                                   end_time, exclude_id)]}})}})

(***************************************************************************)
(* Request handlers (apps/meetings/serializers.py, apps/meetings/views.py) *)
(* and the admin site (apps/meetings/admin.py).  Every handler runs to its *)
(* response; resp is the response of the last request or service call.     *)
(***************************************************************************)
NowStart == Days(6) + Hours(12)

\* user.notification_preferences of a user who has no NotificationPreference row
NoPreferences ==
    [stored |-> FALSE,
     email_invitations |-> TRUE, email_updates |-> TRUE,
     email_cancellations |-> TRUE, email_reminders |-> TRUE,
     sms_invitations |-> FALSE, sms_updates |-> FALSE,
     sms_cancellations |-> TRUE, sms_reminders |-> TRUE]

\* a run of send_scheduled_reminders that has not started
IdleRun == [pc |-> "idle", now |-> NULL, targets |-> <<>>, target |-> 0]

Init ==
    /\ now = NowStart
    /\ meetings = <<>>
    /\ participantRows = {}
    /\ blockedTimes = <<>>
    /\ availabilities = <<>>
    /\ resp = [op |-> "none"]
    /\ accepted = {}
    /\ preferences = [user \in Users |-> NoPreferences]
    /\ notifications = {}
    /\ deliveries = {}
    /\ runs = [run \in 1..MaxRuns |-> IdleRun]

\* MeetingSerializer.validate for a new meeting (self.instance is None)
MeetingSerializer_validate(attrs) ==
    IF attrs.start_time.t <= now
    THEN [error |-> "start_time", attrs |-> attrs]
    ELSE IF attrs.end_time = NoDatetime
    THEN [error |-> "",
          attrs |-> [attrs EXCEPT !.end_time =
                        Plus(attrs.start_time, Minutes(attrs.duration_minutes))]]
    ELSE IF attrs.end_time.t <= attrs.start_time.t
    THEN [error |-> "end_time", attrs |-> attrs]
    ELSE [error |-> "", attrs |-> attrs]

MeetingCreateSerializer_validate(data, user) ==
    Only({IF v.error # "" THEN [error |-> v.error, attrs |-> v.attrs, detail |-> <<>>]
          ELSE IF data.check_conflicts /\ ~data.force_create
          THEN Only({IF conflicts.has_any_conflicts
                     THEN [error |-> "conflicts", attrs |-> v.attrs,
                           detail |->
                             <<[organizer |-> conflicts.organizer_conflicts,
                                participants |-> conflicts.participant_conflicts,
                                suggestions |->
                                  SubSeq(conflicts.suggested_alternatives, 1,
                                         Min(3, Len(conflicts.suggested_alternatives)))]>>]
                     ELSE [error |-> "", attrs |-> v.attrs, detail |-> <<>>] :
                       conflicts \in
                         {check_meeting_conflicts(
                             [start_time |-> v.attrs.start_time,
                              end_time |-> v.attrs.end_time,
                              duration_minutes |-> v.attrs.duration_minutes,
                              participants |-> v.attrs.participant_ids,
                              exclude_meeting_id |-> NoId], user)}})
          ELSE [error |-> "", attrs |-> v.attrs, detail |-> <<>>] :
            v \in {MeetingSerializer_validate(data)}})

\* POST /meetings/: MeetingViewSet.create, MeetingCreateSerializer.validate,
\* MeetingSerializer.create
MeetingCreate(user, data) ==
    /\ Len(meetings) < MaxMeetings
    /\ \E v \in {MeetingCreateSerializer_validate(data, user)} :
       LET id == Len(meetings) + 1
       IN IF v.error # ""
          THEN /\ resp' = [op |-> "meeting_create", status |-> 400,
                           error |-> v.error, detail |-> v.detail]
               /\ UNCHANGED <<meetings, participantRows>>
          ELSE /\ meetings' = Append(meetings,
                                [organizer |-> user,
                                 start_time |-> v.attrs.start_time.t,
                                 end_time |-> v.attrs.end_time.t,
                                 duration_minutes |-> v.attrs.duration_minutes,
                                 status |-> "scheduled",
                                 is_deleted |-> FALSE])
               /\ participantRows' = participantRows \cup
                     {[meeting |-> id, user |-> v.attrs.participant_ids[k]] :
                         k \in 1..Len(v.attrs.participant_ids)}
               /\ resp' = [op |-> "meeting_create", status |-> 201, id |-> id]
    /\ UNCHANGED <<now, blockedTimes, availabilities>>
    /\ UNCHANGED notification_vars

\* MeetingViewSet.get_queryset(): the meetings get_object() finds for the user
VisibleMeetings(user) ==
    {i \in DOMAIN meetings :
        /\ meetings[i].organizer = user
             \/ [meeting |-> i, user |-> user] \in participantRows
        /\ meetings[i].is_deleted = FALSE}

\* DELETE /meetings/{id}/: MeetingViewSet.destroy and SoftDeleteModel.soft_delete,
\* which saves is_deleted, deleted_at and updated_at only
MeetingDestroy(user, id) ==
    /\ id \in DOMAIN meetings
    /\ IF id \notin VisibleMeetings(user)
       THEN /\ resp' = [op |-> "meeting_destroy", status |-> 404, id |-> id]
            /\ UNCHANGED meetings
       ELSE IF meetings[id].organizer # user
       THEN /\ resp' = [op |-> "meeting_destroy", status |-> 403, id |-> id]
            /\ UNCHANGED meetings
       ELSE /\ meetings' = [meetings EXCEPT ![id].is_deleted = TRUE]
            /\ resp' = [op |-> "meeting_destroy", status |-> 200, id |-> id]
    /\ UNCHANGED <<now, participantRows, blockedTimes, availabilities>>
    /\ UNCHANGED notification_vars

\* the change form of MeetingAdmin: status and is_deleted are editable fields
AdminMeetingChange(id, status, is_deleted) ==
    /\ id \in DOMAIN meetings
    /\ meetings' = [meetings EXCEPT ![id].status = status, ![id].is_deleted = is_deleted]
    /\ resp' = [op |-> "admin_meeting_change", id |-> id]
    /\ UNCHANGED <<now, participantRows, blockedTimes, availabilities>>
    /\ UNCHANGED notification_vars

\* POST /blocked-times/: BlockedTimeViewSet.create, BlockedTimeSerializer
BlockedTimeCreate(user, attrs) ==
    /\ Len(blockedTimes) < MaxBlocked
    /\ IF attrs.start_datetime.t >= attrs.end_datetime.t
       THEN /\ resp' = [op |-> "blocked_time_create", status |-> 400]
            /\ UNCHANGED blockedTimes
       ELSE /\ blockedTimes' = Append(blockedTimes,
                                  [user |-> user,
                                   start_datetime |-> attrs.start_datetime.t,
                                   end_datetime |-> attrs.end_datetime.t])
            /\ resp' = [op |-> "blocked_time_create", status |-> 201]
    /\ UNCHANGED <<now, meetings, participantRows, availabilities>>
    /\ UNCHANGED notification_vars

\* POST /availability/: AvailabilityViewSet.create, AvailabilitySerializer
AvailabilityCreate(user, attrs) ==
    /\ Len(availabilities) < MaxAvail
    /\ IF attrs.start_time >= attrs.end_time
       THEN /\ resp' = [op |-> "availability_create", status |-> 400]
            /\ UNCHANGED availabilities
       ELSE /\ availabilities' = Append(availabilities,
                                    [user |-> user,
                                     day_of_week |-> attrs.day_of_week,
                                     start_time |-> attrs.start_time,
                                     end_time |-> attrs.end_time,
                                     effective_from |-> attrs.effective_from,
                                     effective_until |-> attrs.effective_until,
                                     is_active |-> attrs.is_active])
            /\ resp' = [op |-> "availability_create", status |-> 201]
    /\ UNCHANGED <<now, meetings, participantRows, blockedTimes>>
    /\ UNCHANGED notification_vars

\* POST /availability/set_business_hours/: AvailabilityViewSet.set_business_hours
SetBusinessHours(user, start_time, end_time) ==
    /\ availabilities' =
          SelectSeq(availabilities,
                    LAMBDA a : ~(a.user = user /\ a.day_of_week < 5))
            \o [day \in 1..5 |->
                  [user |-> user,
                   day_of_week |-> day - 1,
                   start_time |-> start_time,
                   end_time |-> end_time,
                   effective_from |-> NULL,
                   effective_until |-> NULL,
                   is_active |-> TRUE]]
    /\ resp' = [op |-> "set_business_hours", status |-> 200]
    /\ UNCHANGED <<now, meetings, participantRows, blockedTimes>>
    /\ UNCHANGED notification_vars

\* the clock advances by a day; the last response is no longer current
Tick ==
    /\ now < NowStart + Days(MaxTicks)
    /\ now' = now + Days(1)
    /\ resp' = [op |-> "none"]
    /\ UNCHANGED <<meetings, participantRows, blockedTimes, availabilities>>
    /\ UNCHANGED notification_vars

\* ConflictDetector(user, tz).get_all_conflicts(start_time, end_time, exclude)
GetAllConflicts(user, tz, start_time, end_time, exclude_meeting_id) ==
    /\ resp' = [op |-> "get_all_conflicts",
                user |-> user, tz |-> tz,
                start_time |-> start_time, end_time |-> end_time,
                exclude_meeting_id |-> exclude_meeting_id,
                report |-> get_all_conflicts(user, tz, start_time, end_time,
                                             exclude_meeting_id)]
    /\ UNCHANGED <<now, meetings, participantRows, blockedTimes, availabilities>>
    /\ UNCHANGED notification_vars

\* check_meeting_conflicts(meeting_data, user)
CheckMeetingConflicts(user, meeting_data) ==
    /\ resp' = [op |-> "check_meeting_conflicts",
                user |-> user, meeting_data |-> meeting_data,
                result |-> check_meeting_conflicts(meeting_data, user)]
    /\ UNCHANGED <<now, meetings, participantRows, blockedTimes, availabilities>>
    /\ UNCHANGED notification_vars

\* SlotSuggester(users, duration_minutes, tz).suggest_slots(preferred_date, n, days)
SuggestSlots(users, duration_minutes, tz, preferred_date, num_suggestions, days_to_search) ==
    /\ resp' = [op |-> "suggest_slots",
                users |-> users, duration_minutes |-> duration_minutes, tz |-> tz,
                preferred_date |-> preferred_date,
                num_suggestions |-> num_suggestions,
                days_to_search |-> days_to_search,
                slots |-> suggest_slots(users, tz, Minutes(duration_minutes),
                                        preferred_date, num_suggestions, days_to_search)]
    /\ UNCHANGED <<now, meetings, participantRows, blockedTimes, availabilities>>
    /\ UNCHANGED notification_vars

\* SlotSuggester(users, duration_minutes, tz).find_next_available_slot(after, max_days)
FindNextAvailableSlot(users, duration_minutes, tz, after_time, max_days) ==
    /\ resp' = [op |-> "find_next_available_slot",
                users |-> users, duration_minutes |-> duration_minutes, tz |-> tz,
                after_time |-> after_time, max_days |-> max_days,
                found |-> find_next_available_slot(users, tz, Minutes(duration_minutes),
                                                   after_time, max_days)]
    /\ UNCHANGED <<now, meetings, participantRows, blockedTimes, availabilities>>
    /\ UNCHANGED notification_vars

(***************************************************************************)
(* Inputs.  The requests of the modelled week: DateOn(0) is its Monday.    *)
(***************************************************************************)
DateOn(w) == 7 + w

\* the datetime whose clock shows h:m on date d in zone tz, expressed in tz
At(d, h, m, tz) == localize(d, time(h, m), TzOffset(tz))

Window(s, e) == [start_time |-> s, end_time |-> e]

MeetingData(w, participant_ids, force_create) ==
    [start_time |-> w.start_time, end_time |-> w.end_time,
     duration_minutes |-> (w.end_time.t - w.start_time.t) \div 60,
     participant_ids |-> participant_ids,
     check_conflicts |-> TRUE, force_create |-> force_create]

\* Monday 10:00-10:30 and 10:30-11:30, Nairobi time
MeetingWindows ==
    {Window(At(DateOn(0), 10, 0, "Africa/Nairobi"), At(DateOn(0), 10, 30, "Africa/Nairobi")),
     Window(At(DateOn(0), 10, 30, "Africa/Nairobi"), At(DateOn(0), 11, 30, "Africa/Nairobi"))}

\* a window that ended before the request, and one that ends before it starts
BadMeetingWindows ==
    {Window(At(DateOn(0) - 2, 10, 0, "Africa/Nairobi"),
            At(DateOn(0) - 2, 10, 30, "Africa/Nairobi")),
     Window(At(DateOn(0), 10, 30, "Africa/Nairobi"), At(DateOn(0), 10, 0, "Africa/Nairobi"))}

ParticipantLists == {<<>>, <<"u1", "u2">>}

\* the users who organize meetings
Organizers == {"u1"}

MeetingInputs ==
    {MeetingData(w, ps, f) : w \in MeetingWindows, ps \in ParticipantLists, f \in BOOLEAN}
        \cup {MeetingData(w, <<>>, FALSE) : w \in BadMeetingWindows}

BlockedInputs ==
    {[start_datetime |-> At(DateOn(0), 10, 0, "Africa/Nairobi"),
      end_datetime |-> At(DateOn(0), 10, 30, "Africa/Nairobi")],
     [start_datetime |-> At(DateOn(0), 10, 30, "Africa/Nairobi"),
      end_datetime |-> At(DateOn(0), 10, 30, "Africa/Nairobi")]}

\* Monday 10:15-10:45, 10:30-11:00 and 07:30-10:00
ConflictQueries ==
    {Window(At(DateOn(0), 10, 15, "Africa/Nairobi"), At(DateOn(0), 10, 45, "Africa/Nairobi")),
     Window(At(DateOn(0), 10, 30, "Africa/Nairobi"), At(DateOn(0), 11, 0, "Africa/Nairobi")),
     Window(At(DateOn(0), 7, 30, "Africa/Nairobi"), At(DateOn(0), 10, 0, "Africa/Nairobi"))}

Statuses == {"scheduled", "in_progress", "completed", "cancelled"}

\* the last response is a conflict report
IsReport == resp.op = "get_all_conflicts"

(***************************************************************************)
(* The meetings and blocked times of the users and the conflict reports    *)
(* over them.  A report is asked for after a request, not after another    *)
(* report: a second report over the same rows reaches no new state.        *)
(***************************************************************************)
NextConflicts ==
    \/ \E user \in Organizers, data \in MeetingInputs : MeetingCreate(user, data)
    \/ \E user \in Users, id \in 1..MaxMeetings : MeetingDestroy(user, id)
    \/ \E id \in 1..MaxMeetings, status \in Statuses :
          AdminMeetingChange(id, status, FALSE)
    \/ \E user \in Users, attrs \in BlockedInputs : BlockedTimeCreate(user, attrs)
    \/ /\ ~IsReport
       /\ \E user \in Users, w \in ConflictQueries, x \in {NoId, 1} :
             GetAllConflicts(user, UserTimezone(user), w.start_time, w.end_time, x)

SpecConflicts == Init /\ [][NextConflicts]_vars

\* the elements of a list
Elems(l) == {l[k] : k \in 1..Len(l)}

\* the users with a participant row of meeting m
ParticipantsOf(m) == {r.user : r \in {q \in participantRows : q.meeting = m}}

\* meeting m counts toward conflict detection for the person
CountsFor(m, person) ==
    /\ meetings[m].organizer = person \/ person \in ParticipantsOf(m)
    /\ ~meetings[m].is_deleted
    /\ meetings[m].status = "scheduled" \/ meetings[m].status = "in_progress"

\* C1: the conflicting_meetings list of a report is exactly the set of meetings
\* that the person organizes or takes part in, that are not soft-deleted, whose
\* status is scheduled or in_progress, that start before the window's end and end
\* after its start, and that are not the excluded meeting; each is listed once.
C1_ConflictingMeetingsExact ==
    IsReport =>
        LET listed == resp.report.conflicting_meetings
            expected == {m \in DOMAIN meetings :
                            /\ CountsFor(m, resp.user)
                            /\ meetings[m].start_time < resp.end_time.t
                            /\ meetings[m].end_time > resp.start_time.t
                            /\ (resp.exclude_meeting_id = NoId
                                  \/ m # resp.exclude_meeting_id)}
        IN /\ Elems(listed) = expected
           /\ Len(listed) = Cardinality(expected)

\* C1 witness: a report lists a meeting that the person both organizes and takes
\* part in, and leaves out a cancelled meeting of the person over the same window
C1_Witness ==
    /\ IsReport
    /\ \E m \in Elems(resp.report.conflicting_meetings) :
          resp.user \in ParticipantsOf(m) /\ meetings[m].organizer = resp.user
    /\ \E m \in DOMAIN meetings :
          /\ meetings[m].organizer = resp.user
          /\ meetings[m].status = "cancelled"
          /\ meetings[m].start_time < resp.end_time.t
          /\ meetings[m].end_time > resp.start_time.t
          /\ m \notin Elems(resp.report.conflicting_meetings)

\* C2: a meeting or blocked time that ends where the window starts, or starts
\* where the window ends, is not listed; one that shares an interval of positive
\* length with the window is listed.
C2_BoundaryTouch ==
    IsReport =>
        /\ \A m \in DOMAIN meetings :
              (CountsFor(m, resp.user) /\ m # resp.exclude_meeting_id) =>
                 /\ (meetings[m].end_time = resp.start_time.t
                       \/ meetings[m].start_time = resp.end_time.t)
                      => m \notin Elems(resp.report.conflicting_meetings)
                 /\ (\E t \in {meetings[m].start_time, resp.start_time.t} :
                        /\ t >= meetings[m].start_time /\ t >= resp.start_time.t
                        /\ t < meetings[m].end_time /\ t < resp.end_time.t)
                      => /\ m \in Elems(resp.report.conflicting_meetings)
                         /\ resp.report.has_conflicts
        /\ \A b \in DOMAIN blockedTimes :
              blockedTimes[b].user = resp.user =>
                 /\ (blockedTimes[b].end_datetime = resp.start_time.t
                       \/ blockedTimes[b].start_datetime = resp.end_time.t)
                      => b \notin Elems(resp.report.blocked_times)
                 /\ (\E t \in {blockedTimes[b].start_datetime, resp.start_time.t} :
                        /\ t >= blockedTimes[b].start_datetime /\ t >= resp.start_time.t
                        /\ t < blockedTimes[b].end_datetime /\ t < resp.end_time.t)
                      => /\ b \in Elems(resp.report.blocked_times)
                         /\ resp.report.has_conflicts

\* C2 witness: the person has a meeting and a blocked time 10:00-10:30, and the
\* report for 10:30-11:00 has no conflicts
C2_Witness ==
    /\ IsReport
    /\ resp.start_time = At(DateOn(0), 10, 30, "Africa/Nairobi")
    /\ ~resp.report.has_conflicts
    /\ \E m \in DOMAIN meetings :
          /\ CountsFor(m, resp.user) /\ m # resp.exclude_meeting_id
          /\ meetings[m].end_time = resp.start_time.t
    /\ \E b \in DOMAIN blockedTimes :
          /\ blockedTimes[b].user = resp.user
          /\ blockedTimes[b].end_datetime = resp.start_time.t

\* C3: has_conflicts of a report is true exactly when its conflicting_meetings or
\* its blocked_times is non-empty, whatever its within_availability.
C3_HasConflictsIffListed ==
    IsReport =>
        (resp.report.has_conflicts
            <=> (resp.report.conflicting_meetings # <<>>
                   \/ resp.report.blocked_times # <<>>))

\* C3 witness: a report without conflicts for a window outside availability
C3_Witness ==
    /\ IsReport
    /\ ~resp.report.has_conflicts
    /\ ~resp.report.within_availability
    /\ \E m \in DOMAIN meetings : CountsFor(m, resp.user)

(***************************************************************************)
(* The availability windows of the users and the availability verdicts     *)
(* over them.                                                              *)
(***************************************************************************)
AvailabilityAttrs(day_of_week, start_time, end_time, from, until, is_active) ==
    [day_of_week |-> day_of_week, start_time |-> start_time, end_time |-> end_time,
     effective_from |-> from, effective_until |-> until, is_active |-> is_active]

\* Monday 09:00-12:00 (also inactive, expiring today, starting tomorrow), Monday
\* 22:00-23:59, Tuesday 00:00-06:00, and a window that ends before it starts
AvailabilityInputs ==
    {AvailabilityAttrs(0, time(9, 0), time(12, 0), NULL, NULL, TRUE),
     AvailabilityAttrs(0, time(9, 0), time(12, 0), NULL, NULL, FALSE),
     AvailabilityAttrs(0, time(9, 0), time(12, 0), NULL, NowStart \div Days(1), TRUE),
     AvailabilityAttrs(0, time(9, 0), time(12, 0), NowStart \div Days(1) + 1, NULL, TRUE),
     AvailabilityAttrs(0, time(22, 0), time(23, 59), NULL, NULL, TRUE),
     AvailabilityAttrs(1, time(0, 0), time(6, 0), NULL, NULL, TRUE),
     AvailabilityAttrs(0, time(12, 0), time(9, 0), NULL, NULL, TRUE)}

\* windows given by their local dates and times in zone tz
LocalWindows(tz) ==
    {Window(At(DateOn(0), 9, 0, tz), At(DateOn(0), 12, 0, tz)),
     Window(At(DateOn(0), 8, 59, tz), At(DateOn(0), 12, 0, tz)),
     Window(At(DateOn(0), 9, 0, tz), At(DateOn(0), 12, 1, tz)),
     Window(At(DateOn(0), 13, 0, tz), At(DateOn(0), 14, 0, tz)),
     Window(At(DateOn(1), 1, 0, tz), At(DateOn(1), 2, 0, tz)),
     Window(At(DateOn(1), 0, 0, tz), At(DateOn(1), 6, 0, tz)),
     Window(At(DateOn(0), 22, 0, tz), At(DateOn(1), 1, 0, tz)),
     Window(At(DateOn(0), 23, 0, tz), At(DateOn(2), 1, 0, tz))}

\* the zones a caller expresses the instants of a request in
WireTimezones == {"UTC", "Africa/Nairobi", "Asia/Tokyo"}

\* the same window with both instants expressed in zone tz
Expressed(w, tz) ==
    Window(astimezone(w.start_time, tz), astimezone(w.end_time, tz))

AvailabilityQueries(user) ==
    {Expressed(w, tz) : w \in LocalWindows(UserTimezone(user)), tz \in WireTimezones}

NextAvail ==
    \/ \E user \in Users, attrs \in AvailabilityInputs : AvailabilityCreate(user, attrs)
    \/ \E user \in Users : SetBusinessHours(user, time(0, 0), time(23, 59))
    \/ Tick
    \/ /\ ~IsReport
       /\ \E user \in Users :
             \E w \in AvailabilityQueries(user) :
                GetAllConflicts(user, UserTimezone(user), w.start_time, w.end_time, NoId)

SpecAvail == Init /\ [][NextAvail]_vars

\* the instants of the last report on the clock of the person's zone
LocalStart == astimezone(resp.start_time, resp.tz)
LocalEnd == astimezone(resp.end_time, resp.tz)

\* the last report is about a window within one local calendar day
IsSingleDayReport == IsReport /\ DateOf(LocalStart) = DateOf(LocalEnd)

\* the rows of a person for a weekday, and those of them that are live today
DeclaredWindows(person, day_of_week) ==
    {i \in DOMAIN availabilities :
        availabilities[i].user = person /\ availabilities[i].day_of_week = day_of_week}

LiveWindows(person, day_of_week) ==
    {i \in DeclaredWindows(person, day_of_week) :
        /\ availabilities[i].is_active
        /\ availabilities[i].effective_from # NULL => availabilities[i].effective_from <= today
        /\ availabilities[i].effective_until # NULL => availabilities[i].effective_until >= today}

Contained(i, from, to) ==
    availabilities[i].start_time <= from /\ to <= availabilities[i].end_time

\* the single-day test as the specification words it
SingleDayTest(person, day_of_week, from, to) ==
    IF LiveWindows(person, day_of_week) = {}
    THEN time(8, 0) <= from /\ to <= time(18, 0)
    ELSE \E i \in LiveWindows(person, day_of_week) : Contained(i, from, to)

\* C4: a window within one local calendar day is within availability exactly
\* when its local time range is contained in a live window of the weekday of
\* that local date (the default hours standing in when the weekday has none),
\* whatever zone the two instants are expressed in
C4_LocalWeekdaySelects ==
    IsSingleDayReport =>
        resp.report.within_availability
          = SingleDayTest(resp.user, weekday(DateOf(LocalStart)),
                          TimeOf(LocalStart), TimeOf(LocalEnd))

\* C4 witness: a single-day window expressed in another zone, on a weekday
\* with a live window, reported within availability
C4_Witness ==
    /\ IsSingleDayReport
    /\ resp.start_time.off # TzOffset(resp.tz)
    /\ LiveWindows(resp.user, weekday(DateOf(LocalStart))) # {}
    /\ resp.report.within_availability

\* C5: only the active windows whose effective range contains today count;
\* the single-day test for a weekday without such a window is containment in
\* 08:00-18:00, and for a weekday with one it is containment in one of them
C5_LiveWindowsOrDefault ==
    IsReport =>
        /\ \A day_of_week \in 0..6 :
              _is_time_within_availability(resp.user, day_of_week,
                                           TimeOf(LocalStart), TimeOf(LocalEnd))
                = SingleDayTest(resp.user, day_of_week,
                                TimeOf(LocalStart), TimeOf(LocalEnd))
        /\ IsSingleDayReport =>
              resp.report.within_availability
                = SingleDayTest(resp.user, weekday(DateOf(resp.start_time)),
                                TimeOf(LocalStart), TimeOf(LocalEnd))

\* C5 witness: the weekday tested has declared windows, none of them live, and
\* the window is reported within availability by the default hours
C5_Witness ==
    /\ IsSingleDayReport
    /\ DeclaredWindows(resp.user, weekday(DateOf(resp.start_time))) # {}
    /\ LiveWindows(resp.user, weekday(DateOf(resp.start_time))) = {}
    /\ \E i \in DeclaredWindows(resp.user, weekday(DateOf(resp.start_time))) :
          availabilities[i].is_active
    /\ resp.report.within_availability

\* C6: a requested window equal to a live window of its weekday is within
\* availability, and one that starts a minute before it or ends a minute
\* after it is not
C6_ContainmentBoundary ==
    IsSingleDayReport =>
        \A i \in LiveWindows(resp.user, weekday(DateOf(LocalStart))) :
            /\ (/\ TimeOf(LocalStart) = availabilities[i].start_time
                /\ TimeOf(LocalEnd) = availabilities[i].end_time)
                  => resp.report.within_availability
            /\ (\/ TimeOf(LocalStart) = availabilities[i].start_time - Minutes(1)
                \/ TimeOf(LocalEnd) = availabilities[i].end_time + Minutes(1))
                  => ~resp.report.within_availability

\* C6 witness: a requested window equal to a live window, within availability
C6_Witness ==
    /\ IsSingleDayReport
    /\ resp.report.within_availability
    /\ \E i \in LiveWindows(resp.user, weekday(DateOf(LocalStart))) :
          /\ TimeOf(LocalStart) = availabilities[i].start_time
          /\ TimeOf(LocalEnd) = availabilities[i].end_time

\* C7: a window over several local dates is within availability exactly when
\* every date from the first to the last passes the single-day test of its
\* own weekday on the part of the window that falls on it
C7_EveryDayPasses ==
    (IsReport /\ DateOf(LocalStart) # DateOf(LocalEnd)) =>
        resp.report.within_availability
          = \A d \in DateOf(LocalStart)..DateOf(LocalEnd) :
                SingleDayTest(resp.user, weekday(d),
                              IF d = DateOf(LocalStart) THEN TimeOf(LocalStart)
                                                        ELSE time(0, 0),
                              IF d = DateOf(LocalEnd) THEN TimeOf(LocalEnd)
                                                      ELSE time(23, 59))

\* C7 witness: a window over three local dates, within availability
C7_Witness ==
    /\ IsReport
    /\ DateOf(LocalEnd) = DateOf(LocalStart) + 2
    /\ resp.report.within_availability

(***************************************************************************)
(* The slot suggester and check_meeting_conflicts over the rows of two     *)
(* users in different zones: u1, the organizer, in Nairobi and u2 in Tokyo.*)
(***************************************************************************)
\* u2 declares Monday 09:00-12:00 and u1 Saturday 08:00-18:00
SuggestAvailabilityInputs ==
    {<<"u2", AvailabilityAttrs(0, time(9, 0), time(12, 0), NULL, NULL, TRUE)>>,
     <<"u1", AvailabilityAttrs(5, time(8, 0), time(18, 0), NULL, NULL, TRUE)>>}

\* the organizer alone, and with u2 as a participant
SuggesterUsers == {<<"u1">>, <<"u1", "u2">>}

\* Monday, Friday and Saturday
PreferredDates == {DateOn(0), DateOn(4), DateOn(5)}

\* Monday 09:40 and Friday 17:45 Nairobi time, and Monday 09:40 as sent in UTC
AfterTimes ==
    {At(DateOn(0), 9, 40, "Africa/Nairobi"),
     At(DateOn(4), 17, 45, "Africa/Nairobi"),
     astimezone(At(DateOn(0), 9, 40, "Africa/Nairobi"), "UTC")}

\* the meeting_data of a candidate meeting
CandidateData(w, participants) ==
    [start_time |-> w.start_time, end_time |-> w.end_time,
     duration_minutes |-> (w.end_time.t - w.start_time.t) \div 60,
     participants |-> participants,
     exclude_meeting_id |-> NoId]

\* Monday 10:00-10:30 and 13:00-13:30, Nairobi time
CandidateWindows ==
    {Window(At(DateOn(0), 10, 0, "Africa/Nairobi"), At(DateOn(0), 10, 30, "Africa/Nairobi")),
     Window(At(DateOn(0), 13, 0, "Africa/Nairobi"), At(DateOn(0), 13, 30, "Africa/Nairobi"))}

\* the last response is the result of a call that changes no row
IsServiceResult ==
    resp.op \in {"suggest_slots", "find_next_available_slot", "check_meeting_conflicts"}

NextSuggest ==
    \/ \E input \in SuggestAvailabilityInputs : AvailabilityCreate(input[1], input[2])
    \/ \E user \in Users, attrs \in BlockedInputs : BlockedTimeCreate(user, attrs)
    \/ \E w \in CandidateWindows :
          w.start_time = At(DateOn(0), 10, 0, "Africa/Nairobi")
            /\ MeetingCreate("u1", MeetingData(w, <<"u1", "u2">>, TRUE))
    \/ /\ ~IsServiceResult
       /\ \E users \in SuggesterUsers, duration_minutes \in {30, 60},
             preferred_date \in PreferredDates, num_suggestions \in {1, 3},
             days_to_search \in {0, 3} :
             SuggestSlots(users, duration_minutes, UserTimezone(users[1]),
                          preferred_date, num_suggestions, days_to_search)
    \/ /\ ~IsServiceResult
       /\ \E users \in SuggesterUsers, duration_minutes \in {30},
             after_time \in AfterTimes, max_days \in {1, 7} :
             FindNextAvailableSlot(users, duration_minutes, UserTimezone(users[1]),
                                   after_time, max_days)
    \/ /\ ~IsServiceResult
       /\ \E w \in CandidateWindows, participants \in {<<>>, <<"u2">>} :
             CheckMeetingConflicts("u1", CandidateData(w, participants))

SpecSuggest == Init /\ [][NextSuggest]_vars

\* the slots of the last response, when it is the result of a suggester call
ReturnedSlots ==
    IF resp.op = "suggest_slots" THEN Elems(resp.slots)
    ELSE IF resp.op = "find_next_available_slot" THEN Elems(resp.found.slot)
    ELSE {}

\* get_all_conflicts for a person, asked of the detector of that person
Recheck(person, slot) ==
    get_all_conflicts(person, PersonDetectorTz(person),
                      slot.start_time, slot.end_time, NoId)

\* C8: every slot returned by suggest_slots or find_next_available_slot, when
\* re-checked with get_all_conflicts for each person of the suggester, has no
\* conflicts and is within that person's availability
C8_SuggestionSound ==
    \A slot \in ReturnedSlots : \A person \in Elems(resp.users) :
        /\ ~Recheck(person, slot).has_conflicts
        /\ Recheck(person, slot).within_availability

\* C8 witness: a slot returned for two persons while one of them has a meeting
C8_Witness ==
    /\ ReturnedSlots # {}
    /\ Len(resp.users) = 2
    /\ Len(meetings) > 0

\* the persons and the windows check_meeting_conflicts evaluated in its last
\* call: the candidate window itself and the alternatives it suggested
EvaluatedPersons ==
    {resp.user} \cup Resolvable(resp.meeting_data.participants)

EvaluatedWindows ==
    {Window(resp.meeting_data.start_time, resp.meeting_data.end_time)}
      \cup {Window(slot.start_time, slot.end_time) :
               slot \in Elems(resp.result.suggested_alternatives)}

\* C9: the availability verdict for a person and a window is the same in
\* check_meeting_conflicts and in the slot suggester it calls, also when the
\* organizer and the participant have different timezones
C9_SameVerdictAtBothSites ==
    resp.op = "check_meeting_conflicts" =>
        \A person \in EvaluatedPersons : \A w \in EvaluatedWindows :
            check_availability_window(person, PersonDetectorTz(person),
                                      w.start_time, w.end_time)
              = check_availability_window(
                    person, SlotDetectorTz(person, UserTimezone(resp.user)),
                    w.start_time, w.end_time)

\* C9 witness: a candidate with a participant of another timezone, for which
\* alternatives were suggested
C9_Witness ==
    /\ resp.op = "check_meeting_conflicts"
    /\ \E person \in EvaluatedPersons : UserTimezone(person) # UserTimezone(resp.user)
    /\ resp.result.suggested_alternatives # <<>>

\* C10: suggest_slots never returns a slot whose local date is a Saturday or a
\* Sunday
C10_NoWeekendSlot ==
    resp.op = "suggest_slots" =>
        \A slot \in Elems(resp.slots) :
            /\ weekday(DateOf(astimezone(slot.start_time, resp.tz))) \notin {5, 6}
            /\ weekday(slot.date) \notin {5, 6}

\* C10 witness: the preferred date is a Saturday on which every person of the
\* suggester has declared availability and nothing else, the search reaches
\* the Monday after it, and slots are returned
C10_Witness ==
    /\ resp.op = "suggest_slots"
    /\ weekday(resp.preferred_date) = 5
    /\ \A person \in Elems(resp.users) : LiveWindows(person, 5) # {}
    /\ meetings = <<>> /\ blockedTimes = <<>>
    /\ resp.slots # <<>>

(***************************************************************************)
(* The slots suggest_slots returns, against the 30-minute grid of the      *)
(* business hours of the weekdays it searches.                             *)
(***************************************************************************)
\* Monday and Friday
GridDates == {DateOn(0), DateOn(4)}

NextGrid ==
    \/ \E input \in SuggestAvailabilityInputs : AvailabilityCreate(input[1], input[2])
    \/ \E user \in Users, attrs \in BlockedInputs : BlockedTimeCreate(user, attrs)
    \/ /\ ~IsServiceResult
       /\ \E users \in SuggesterUsers, duration_minutes \in {30, 600, 630},
             preferred_date \in GridDates, num_suggestions \in {1, 3, 20},
             days_to_search \in {0, 3} :
             SuggestSlots(users, duration_minutes, UserTimezone(users[1]),
                          preferred_date, num_suggestions, days_to_search)

SpecGrid == Init /\ [][NextGrid]_vars

\* the instants of the 30-minute grid of a date: local 08:00 and every 30
\* minutes after it for which a slot of the duration ends by local 18:00
GridStarts(tz, duration_minutes, date) ==
    {Days(date) + time(8, 0) + Minutes(30) * k - TzOffset(tz) : k \in
        {j \in 0..19 : time(8, 0) + Minutes(30) * j + Minutes(duration_minutes)
                          <= time(18, 0)}}

\* every person of the suggester is free and within availability from instant
\* t on, for the duration, as the detectors of the suggester report it
Qualifies(users, tz, duration_minutes, t) ==
    \A person \in Elems(users) :
        LET report == get_all_conflicts(
                          person, SlotDetectorTz(person, tz),
                          [t |-> t, off |-> TzOffset(tz)],
                          [t |-> t + Minutes(duration_minutes), off |-> TzOffset(tz)],
                          NoId)
        IN ~report.has_conflicts /\ report.within_availability

\* the qualifying grid instants of the weekdays the last suggest_slots searched
QualifyingStarts ==
    UNION {{t \in GridStarts(resp.tz, resp.duration_minutes, d) :
               Qualifies(resp.users, resp.tz, resp.duration_minutes, t)} :
           d \in {e \in resp.preferred_date..(resp.preferred_date + resp.days_to_search) :
                     weekday(e) \notin {5, 6}}}

\* C11: every slot suggest_slots returns starts at local 08:00 plus a multiple
\* of 30 minutes on its date, ends a duration later and by local 18:00 of that
\* date; a duration above 600 minutes returns no slot
C11_SlotsOnGrid ==
    resp.op = "suggest_slots" =>
        /\ \A slot \in Elems(resp.slots) :
              LET local_start == astimezone(slot.start_time, resp.tz)
                  local_end == astimezone(slot.end_time, resp.tz)
              IN /\ DateOf(local_start) = slot.date
                 /\ TimeOf(local_start) >= time(8, 0)
                 /\ (TimeOf(local_start) - time(8, 0)) % Minutes(30) = 0
                 /\ slot.end_time.t = slot.start_time.t + Minutes(resp.duration_minutes)
                 /\ DateOf(local_end) = slot.date
                 /\ TimeOf(local_end) <= time(18, 0)
        /\ resp.duration_minutes > 600 => resp.slots = <<>>

\* C11 witness: a slot of 600 minutes is returned, from 08:00 to 18:00
C11_Witness ==
    /\ resp.op = "suggest_slots"
    /\ resp.duration_minutes = 600
    /\ resp.slots # <<>>
    /\ TimeOf(astimezone(resp.slots[1].end_time, resp.tz)) = time(18, 0)

\* C12: suggest_slots returns, in strictly increasing start order, the first
\* min(n, K) of the K qualifying grid slots of the weekdays from preferred_date
\* through preferred_date + days_to_search
C12_FirstQualifyingSlots ==
    resp.op = "suggest_slots" =>
        LET starts == {slot.start_time.t : slot \in Elems(resp.slots)}
        IN /\ Len(resp.slots) = Min(resp.num_suggestions, Cardinality(QualifyingStarts))
           /\ \A k \in 1..(Len(resp.slots) - 1) :
                 resp.slots[k].start_time.t < resp.slots[k + 1].start_time.t
           /\ starts \subseteq QualifyingStarts
           /\ \A q \in QualifyingStarts \ starts : \A t \in starts : t < q

\* C12 witness: fewer slots than asked for, from two dates, with a qualifying
\* grid instant of the first date taken by a blocked time left out
C12_Witness ==
    /\ resp.op = "suggest_slots"
    /\ 1 < Len(resp.slots) /\ Len(resp.slots) < resp.num_suggestions
    /\ resp.slots[1].date # resp.slots[Len(resp.slots)].date
    /\ \E t \in GridStarts(resp.tz, resp.duration_minutes, resp.preferred_date) :
          ~Qualifies(resp.users, resp.tz, resp.duration_minutes, t)

(***************************************************************************)
(* check_meeting_conflicts for candidates of organizer u1 whose participant*)
(* lists also name "u9", an id of no user.                                 *)
(***************************************************************************)
CandidateParticipants == {<<>>, <<"u2">>, <<"u9">>, <<"u9", "u2">>}

NextCheck ==
    \/ \E input \in SuggestAvailabilityInputs : AvailabilityCreate(input[1], input[2])
    \/ \E user \in Users, attrs \in BlockedInputs : BlockedTimeCreate(user, attrs)
    \/ \E w \in CandidateWindows :
          w.start_time = At(DateOn(0), 10, 0, "Africa/Nairobi")
            /\ MeetingCreate("u1", MeetingData(w, <<"u1", "u2">>, TRUE))
    \/ /\ ~IsServiceResult
       /\ \E w \in CandidateWindows, participants \in CandidateParticipants :
             CheckMeetingConflicts("u1", CandidateData(w, participants))

SpecCheck == Init /\ [][NextCheck]_vars

\* the last response is a result of check_meeting_conflicts
IsCheckResult == resp.op = "check_meeting_conflicts"

\* the listed participants that are users
KnownParticipants == Elems(resp.meeting_data.participants) \cap Users

\* the report of a person for the candidate window of the last call
CandidateReport(person) ==
    get_all_conflicts(person, UserTimezone(person),
                      resp.meeting_data.start_time, resp.meeting_data.end_time,
                      resp.meeting_data.exclude_meeting_id)

\* C13: an id of no user is skipped without an error and without changing the
\* result, and participant_conflicts has an entry, keyed by the participant,
\* with the display name and the report, for exactly the listed users whose
\* report has conflicts
C13_ParticipantEntries ==
    IsCheckResult =>
        /\ DOMAIN resp.result.participant_conflicts
             = {p \in KnownParticipants : CandidateReport(p).has_conflicts}
        /\ \A p \in DOMAIN resp.result.participant_conflicts :
              resp.result.participant_conflicts[p]
                = [user |-> full_name(p), conflicts |-> CandidateReport(p)]
        /\ resp.result
             = check_meeting_conflicts(
                   [resp.meeting_data EXCEPT
                       !.participants = SelectSeq(@, LAMBDA id : id \in Users)],
                   resp.user)

\* C13 witness: the list names an unknown id and a user with conflicts, beside
\* whom the organizer has none
C13_Witness ==
    /\ IsCheckResult
    /\ Elems(resp.meeting_data.participants) \ Users # {}
    /\ DOMAIN resp.result.participant_conflicts # {}
    /\ ~resp.result.organizer_conflicts.has_conflicts

\* C14: has_any_conflicts is (the organizer's report has conflicts or
\* participant_conflicts is not empty), and without conflicts nothing is
\* suggested, also for a candidate outside someone's availability
C14_AnyConflictsAndNoNeedlessSuggestions ==
    IsCheckResult =>
        /\ resp.result.has_any_conflicts
             = (\/ resp.result.organizer_conflicts.has_conflicts
                \/ DOMAIN resp.result.participant_conflicts # {})
        /\ resp.result.organizer_conflicts = CandidateReport(resp.user)
        /\ ~resp.result.has_any_conflicts => resp.result.suggested_alternatives = <<>>
        /\ (\A p \in {resp.user} \cup KnownParticipants :
               /\ CandidateReport(p).conflicting_meetings = <<>>
               /\ CandidateReport(p).blocked_times = <<>>)
             => /\ ~resp.result.has_any_conflicts
                /\ resp.result.suggested_alternatives = <<>>

\* C14 witness: a candidate outside a participant's availability while some
\* person has rows elsewhere: no conflicts and nothing suggested
C14_Witness ==
    /\ IsCheckResult
    /\ \E p \in KnownParticipants : ~CandidateReport(p).within_availability
    /\ blockedTimes # <<>>
    /\ ~resp.result.has_any_conflicts
    /\ resp.result.suggested_alternatives = <<>>

\* C15: with conflicts, the alternatives are those of the suggester of the
\* organizer and all listed users, from the date of the candidate start in
\* the organizer's timezone on, and they are at most 3
C15_ThreeAlternativesFromLocalDate ==
    (IsCheckResult /\ resp.result.has_any_conflicts) =>
        /\ Len(resp.result.suggested_alternatives) <= 3
        /\ resp.result.suggested_alternatives
             = suggest_slots(<<resp.user>> \o UserList(KnownParticipants),
                             UserTimezone(resp.user),
                             Minutes(resp.meeting_data.duration_minutes),
                             DateOf(astimezone(resp.meeting_data.start_time,
                                               UserTimezone(resp.user))),
                             3, 7)

\* C15 witness: alternatives are suggested for a candidate with a participant
C15_Witness ==
    /\ IsCheckResult
    /\ resp.result.has_any_conflicts
    /\ KnownParticipants # {}
    /\ resp.result.suggested_alternatives # <<>>

(***************************************************************************)
(* Create-meeting requests of organizer u1 with every setting of the two   *)
(* request flags check_conflicts and force_create.                         *)
(***************************************************************************)
CreateData(w, participant_ids, check, force_create) ==
    [MeetingData(w, participant_ids, force_create) EXCEPT !.check_conflicts = check]

CreateInputs ==
    {CreateData(w, ps, c, f) :
        w \in MeetingWindows, ps \in ParticipantLists, c \in BOOLEAN, f \in BOOLEAN}

NextCreate ==
    \/ \E data \in CreateInputs : MeetingCreate("u1", data)
    \/ \E user \in Users, attrs \in BlockedInputs : BlockedTimeCreate(user, attrs)

SpecCreate == Init /\ [][NextCreate]_vars

\* the result of check_meeting_conflicts for the window and the participants
\* of a create-meeting request
RequestConflicts(user, data) ==
    check_meeting_conflicts(
        [start_time |-> data.start_time, end_time |-> data.end_time,
         duration_minutes |-> data.duration_minutes,
         participants |-> data.participant_ids,
         exclude_meeting_id |-> NoId], user)

\* C16: a create-meeting request for a window with conflicts that does not set
\* force_create stores no meeting and no participant row and answers with a
\* validation error that carries the conflict details and the suggestions,
\* whatever its other fields are
C16_ConflictBlocksCreation ==
    [][\A data \in CreateInputs :
          (/\ MeetingCreate("u1", data)
           /\ ~data.force_create
           /\ RequestConflicts("u1", data).has_any_conflicts)
            => /\ meetings' = meetings
               /\ participantRows' = participantRows
               /\ resp'.status = 400
               /\ resp'.error = "conflicts"
               /\ resp'.detail[1].organizer
                    = RequestConflicts("u1", data).organizer_conflicts
               /\ resp'.detail[1].participants
                    = RequestConflicts("u1", data).participant_conflicts]_vars

\* C16 witness: a create-meeting request was refused for its conflicts, with
\* suggestions
C16_Witness ==
    /\ resp.op = "meeting_create"
    /\ resp.status = 400
    /\ resp.error = "conflicts"
    /\ resp.detail[1].suggestions # <<>>
    /\ Len(meetings) = 1

\* ---------------------------------------------------------------------------
\* find_next_available_slot, one pass of its loop at a time
\* ---------------------------------------------------------------------------

\* the number of 30-minute steps in a horizon of max_days days
ScanHorizon(max_days) == 48 * max_days

\* the call enters the function: current_time = after_time, end_search is
\* after_time + max_days, nothing tested yet
FindStart(users, duration_minutes, tz, after_time, max_days) ==
    /\ resp' = [op |-> "find_scan",
                users |-> users, duration_minutes |-> duration_minutes, tz |-> tz,
                after_time |-> after_time, max_days |-> max_days,
                current_time |-> after_time,
                end_search |-> Plus(after_time, Days(max_days)),
                tested |-> <<>>, iterations |-> 0]
    /\ UNCHANGED <<now, meetings, participantRows, blockedTimes, availabilities>>
    /\ UNCHANGED notification_vars

\* what the call answers: the fields of the request, the candidates tested and
\* the slot found (or none)
FindResult(scan, tested, slot) ==
    [op |-> "find_next_available_slot",
     users |-> scan.users, duration_minutes |-> scan.duration_minutes,
     tz |-> scan.tz, after_time |-> scan.after_time, max_days |-> scan.max_days,
     tested |-> tested, iterations |-> scan.iterations,
     found |-> [returned |-> TRUE, slot |-> slot]]

\* the loop test and, when it passes, one pass through the body; the model
\* follows a scan for one pass more than the horizon has 30-minute steps
FindIterate ==
    /\ resp.op = "find_scan"
    /\ resp.iterations <= ScanHorizon(resp.max_days)
    /\ IF ~(resp.current_time.t < resp.end_search.t)
       THEN resp' = FindResult(resp, resp.tested, <<>>)
       ELSE \E pass \in {ScanIteration(resp.users, resp.tz,
                                       Minutes(resp.duration_minutes),
                                       resp.current_time)} :
               resp' = IF pass.kind = "return"
                       THEN FindResult([resp EXCEPT !.iterations = @ + 1],
                                       resp.tested \o pass.tested,
                                       <<FoundSlot(pass.current_time,
                                                   Minutes(resp.duration_minutes))>>)
                       ELSE [resp EXCEPT !.current_time = pass.current_time,
                                         !.tested = @ \o pass.tested,
                                         !.iterations = @ + 1]
    /\ UNCHANGED <<now, meetings, participantRows, blockedTimes, availabilities>>
    /\ UNCHANGED notification_vars

\* after_time values: in the suggester's zone before, inside and after business
\* hours, on a 30-minute mark with seconds, and expressed in other zones
FindAfterTimes ==
    {At(DateOn(0), 9, 40, "Africa/Nairobi"),
     Plus(At(DateOn(0), 9, 30, "Africa/Nairobi"), 15),
     At(DateOn(0), 6, 10, "Africa/Nairobi"),
     At(DateOn(0), 12, 10, "Africa/Nairobi"),
     At(DateOn(4), 17, 45, "Africa/Nairobi"),
     At(DateOn(0), 22, 0, "UTC"),
     At(DateOn(0), 10, 0, "Asia/Tokyo")}

FindMaxDays == {0, 1, 3}

NextFind ==
    \/ /\ resp.op # "find_scan"
       /\ \E pair \in SuggestAvailabilityInputs : AvailabilityCreate(pair[1], pair[2])
    \/ /\ resp.op # "find_scan"
       /\ \E user \in Users, attrs \in BlockedInputs : BlockedTimeCreate(user, attrs)
    \/ /\ resp.op \notin {"find_scan", "find_next_available_slot"}
       /\ \E users \in SuggesterUsers, after_time \in FindAfterTimes,
             max_days \in FindMaxDays :
               FindStart(users, 30, "Africa/Nairobi", after_time, max_days)
    \/ FindIterate

SpecFind == Init /\ [][NextFind]_vars

\* the last call to find_next_available_slot has answered
IsFindResult == resp.op = "find_next_available_slot"

\* C17: every slot find_next_available_slot returns starts on a 30-minute
\* boundary, with minute 0 or 30 and zero seconds, also for an after_time whose
\* minute is 0 or 30 and whose seconds are not zero
C17_StartOnHalfHour ==
    IsFindResult =>
        \A slot \in Elems(resp.found.slot) :
            TimeOf(slot.start_time) % Minutes(30) = 0

\* a call has returned a slot for an after_time that carries seconds
C17_Witness ==
    /\ IsFindResult
    /\ resp.found.slot # <<>>
    /\ resp.after_time.t % Minutes(1) # 0

\* the instant dt lies in 08:00 <= t < 18:00 of a Monday-to-Friday date, both
\* read in the zone tz
InBusinessHours(dt, tz) ==
    LET local_time == astimezone(dt, tz)
    IN /\ time(8, 0) <= TimeOf(local_time)
       /\ TimeOf(local_time) < time(18, 0)
       /\ weekday(DateOf(local_time)) < 5

\* the first candidate of a scan from after_time, by the snap rules read in the
\* zone tz: forward to the 30-minute boundary, before 08:00 to 08:00 of the same
\* local day, from 18:00 on to 08:00 of the next local day, a weekend day to
\* 08:00 of the following Monday
SnapRule(after_time, tz) ==
    LET rounded == ((after_time.t + Minutes(30) - 1) \div Minutes(30)) * Minutes(30)
        local_time == astimezone([t |-> rounded, off |-> 0], tz)
        late == TimeOf(local_time) >= time(18, 0)
        day == IF late THEN DateOf(local_time) + 1 ELSE DateOf(local_time)
        tod == IF late \/ TimeOf(local_time) < time(8, 0)
               THEN time(8, 0) ELSE TimeOf(local_time)
    IN IF weekday(day) >= 5
       THEN localize(day + (7 - weekday(day)), time(8, 0), TzOffset(tz))
       ELSE localize(day, tod, TzOffset(tz))

\* the last call to find_next_available_slot is scanning or has answered
IsFindCall == resp.op \in {"find_scan", "find_next_available_slot"}

\* C18: every candidate find_next_available_slot tests, and every slot it
\* returns, starts in 08:00 <= t < 18:00 of a Monday-to-Friday date in the
\* suggester's timezone, whatever zone after_time is expressed in, and the first
\* candidate is after_time moved by the snap rules in that zone
C18_CandidatesInLocalBusinessHours ==
    IsFindCall =>
        /\ \A k \in DOMAIN resp.tested : InBusinessHours(resp.tested[k], resp.tz)
        /\ resp.tested # <<>> =>
               resp.tested[1].t = SnapRule(resp.after_time, resp.tz).t
        /\ IsFindResult =>
               \A slot \in Elems(resp.found.slot) :
                   InBusinessHours(slot.start_time, resp.tz)

\* a call with an after_time expressed in another zone than the suggester's
\* has returned a slot
C18_Witness ==
    /\ IsFindResult
    /\ resp.after_time.off # TzOffset(resp.tz)
    /\ resp.found.slot # <<>>

\* the instants of the snapped 30-minute grid (08:00, 08:30 .. 17:30 of the
\* weekdays of the zone tz) from after_time on and before after_time + max_days
FindGrid(tz, after_time, max_days) ==
    {t \in UNION {{Days(d) + time(8, 0) + Minutes(30) * k - TzOffset(tz) : k \in 0..19} :
                  d \in {e \in (DateOf(astimezone(after_time, tz)) - 1)..
                                (DateOf(astimezone(after_time, tz)) + max_days + 1) :
                            weekday(e) < 5}} :
        after_time.t <= t /\ t < after_time.t + Days(max_days)}

\* the grid instants of the last call at which every person is free and
\* within availability
FindQualifying ==
    {t \in FindGrid(resp.tz, resp.after_time, resp.max_days) :
        Qualifies(resp.users, resp.tz, resp.duration_minutes, t)}

\* C19: find_next_available_slot returns the earliest candidate of the snapped
\* 30-minute grid at or after after_time at which every person is free and
\* within availability: the start is not before after_time and is before
\* after_time + max_days, no earlier grid candidate qualifies, and None is
\* returned only when no grid candidate of the horizon qualifies
C19_EarliestQualifyingSlot ==
    IsFindResult =>
        IF resp.found.slot = <<>>
        THEN FindQualifying = {}
        ELSE LET start_time == resp.found.slot[1].start_time
             IN /\ resp.after_time.t <= start_time.t
                /\ start_time.t < resp.after_time.t + Days(resp.max_days)
                /\ start_time.t \in FindQualifying
                /\ \A t \in FindQualifying : start_time.t <= t

\* a call has skipped a blocked candidate and returned a later slot
C19_Witness ==
    /\ IsFindResult
    /\ resp.found.slot # <<>>
    /\ Len(resp.tested) > 1

\* C20: find_next_available_slot terminates for every aware after_time, every
\* suggester timezone, every max_days >= 0 and every data snapshot: the scanned
\* instant strictly increases from one candidate test to the next, and the
\* loop makes no more passes than the horizon has 30-minute steps
C20_ScanTerminates ==
    IsFindCall =>
        /\ \A k \in 1..(Len(resp.tested) - 1) :
               resp.tested[k].t < resp.tested[k + 1].t
        /\ resp.iterations <= ScanHorizon(resp.max_days)

\* a scan has tested the rest of a day without success, moved to the next
\* day and answered with a slot there
C20_Witness ==
    /\ IsFindResult
    /\ Len(resp.tested) > 10
    /\ resp.found.slot # <<>>
    /\ DateOf(resp.found.slot[1].start_time) > DateOf(resp.after_time)

\* ---------------------------------------------------------------------------
\* Windows whose end is not after their start
\* ---------------------------------------------------------------------------

\* windows given to the services directly: one valid, one empty, one reversed
ServiceWindows ==
    {Window(At(DateOn(0), 10, 15, "Africa/Nairobi"), At(DateOn(0), 10, 45, "Africa/Nairobi")),
     Window(At(DateOn(0), 10, 15, "Africa/Nairobi"), At(DateOn(0), 10, 15, "Africa/Nairobi")),
     Window(At(DateOn(0), 10, 30, "Africa/Nairobi"), At(DateOn(0), 10, 0, "Africa/Nairobi"))}

\* durations given to SlotSuggester directly, in minutes
ServiceDurations == {0, 30}

NextWindow ==
    \/ \E user \in Users, attrs \in BlockedInputs : BlockedTimeCreate(user, attrs)
    \/ \E w \in MeetingWindows, participant_ids \in ParticipantLists :
          MeetingCreate("u1", MeetingData(w, participant_ids, TRUE))
    \/ \E user \in Users, w \in ServiceWindows :
          GetAllConflicts(user, UserTimezone(user), w.start_time, w.end_time, NoId)
    \/ \E w \in ServiceWindows, participants \in ParticipantLists :
          CheckMeetingConflicts("u1", CandidateData(w, participants))
    \/ \E duration_minutes \in ServiceDurations :
          SuggestSlots(<<"u1">>, duration_minutes, "Africa/Nairobi", DateOn(0), 3, 0)

SpecWindow == Init /\ [][NextWindow]_vars

\* the last call ended with the error named kind instead of a result
Raised(kind) == "error" \in DOMAIN resp /\ resp.error = kind

\* the window the last service call was given has its end after its start
GivenWindowValid ==
    IF resp.op = "get_all_conflicts" THEN resp.end_time.t > resp.start_time.t
    ELSE IF resp.op = "check_meeting_conflicts"
    THEN resp.meeting_data.end_time.t > resp.meeting_data.start_time.t
    ELSE IF resp.op = "suggest_slots" THEN resp.duration_minutes > 0
    ELSE TRUE

\* C21: get_all_conflicts, check_meeting_conflicts and the slot suggester fail
\* with InvalidWindow when the window's end is not after its start, and return
\* no report or slots computed from it
C21_InvalidWindowFailsFast ==
    ~GivenWindowValid => Raised("InvalidWindow")

\* get_all_conflicts was given an empty window inside a stored meeting
C21_Witness ==
    /\ resp.op = "get_all_conflicts"
    /\ resp.end_time.t = resp.start_time.t
    /\ Len(meetings) > 0

\* ---------------------------------------------------------------------------
\* Meeting update (PUT) and partial update (PATCH)
\* ---------------------------------------------------------------------------

\* the data of an update request: start_time and end_time are NoDatetime when
\* the request leaves them out, virtual_link tells whether a link is supplied
UpdateData(start_time, end_time, virtual_link) ==
    [start_time |-> start_time, end_time |-> end_time, virtual_link |-> virtual_link]

\* fields required by a full update are missing (run_validation of the fields,
\* before validate)
RequiredMissing(data, partial) ==
    ~partial /\ (data.start_time = NoDatetime \/ data.end_time = NoDatetime)

\* MeetingSerializer.validate with self.instance set: no start-in-the-future
\* check, end_time filled in or compared only when start_time is in attrs,
\* location_type defaults to virtual and needs a link or platform in attrs
MeetingSerializer_validate_instance(attrs) ==
    IF attrs.start_time # NoDatetime /\ attrs.end_time # NoDatetime
         /\ attrs.end_time.t <= attrs.start_time.t
    THEN [error |-> "end_time", attrs |-> attrs]
    ELSE IF ~attrs.virtual_link
    THEN [error |-> "virtual_link", attrs |-> attrs]
    ELSE IF attrs.start_time # NoDatetime /\ attrs.end_time = NoDatetime
    THEN [error |-> "",
          attrs |-> [attrs EXCEPT !.end_time = Plus(attrs.start_time, Minutes(30))]]
    ELSE [error |-> "", attrs |-> attrs]

\* MeetingSerializer.update: setattr for every validated attribute, then save
MeetingSerializer_update(instance, validated_data) ==
    [instance EXCEPT
        !.start_time = IF validated_data.start_time # NoDatetime
                       THEN validated_data.start_time.t ELSE @,
        !.end_time = IF validated_data.end_time # NoDatetime
                     THEN validated_data.end_time.t ELSE @]

\* MeetingViewSet.update, reached by PUT (partial FALSE) and PATCH (partial TRUE)
MeetingUpdate(user, id, data, partial) ==
    /\ id \in DOMAIN meetings
    /\ IF id \notin VisibleMeetings(user)
       THEN /\ resp' = [op |-> "meeting_update", status |-> 404, id |-> id]
            /\ UNCHANGED meetings
       ELSE IF meetings[id].organizer # user
       THEN /\ resp' = [op |-> "meeting_update", status |-> 403, id |-> id]
            /\ UNCHANGED meetings
       ELSE IF RequiredMissing(data, partial)
       THEN /\ resp' = [op |-> "meeting_update", status |-> 400, id |-> id,
                        error |-> "required"]
            /\ UNCHANGED meetings
       ELSE \E v \in {MeetingSerializer_validate_instance(data)} :
               IF v.error # ""
               THEN /\ resp' = [op |-> "meeting_update", status |-> 400, id |-> id,
                                error |-> v.error]
                    /\ UNCHANGED meetings
               ELSE /\ meetings' = [meetings EXCEPT
                                       ![id] = MeetingSerializer_update(@, v.attrs)]
                    /\ resp' = [op |-> "meeting_update", status |-> 200, id |-> id,
                                data |-> data, partial |-> partial]
    /\ UNCHANGED <<now, participantRows, blockedTimes, availabilities>>
    /\ UNCHANGED notification_vars

UpdateInputs ==
    {UpdateData(s, e, l) :
        s \in {NoDatetime, At(DateOn(0), 10, 15, "Africa/Nairobi")},
        e \in {NoDatetime, At(DateOn(0), 9, 0, "Africa/Nairobi"),
               At(DateOn(0), 11, 0, "Africa/Nairobi")},
        l \in BOOLEAN}

NextUpdate ==
    \/ \E data \in MeetingInputs : MeetingCreate("u1", data)
    \/ \E user \in Users, id \in 1..MaxMeetings, data \in UpdateInputs, partial \in BOOLEAN :
          MeetingUpdate(user, id, data, partial)

SpecUpdate == Init /\ [][NextUpdate]_vars

\* C22: after any sequence of create, full update and partial update requests
\* that pass validation every stored meeting has end_time > start_time, also
\* after a partial update with only end_time or only start_time
C22_StoredEndAfterStart ==
    \A id \in DOMAIN meetings : meetings[id].end_time > meetings[id].start_time

\* a partial update that supplies end_time and no start_time has been accepted
C22_Witness ==
    /\ resp.op = "meeting_update"
    /\ resp.status = 200
    /\ resp.partial
    /\ resp.data.start_time = NoDatetime
    /\ resp.data.end_time # NoDatetime

\* ---------------------------------------------------------------------------
\* Availability update and set_business_hours
\* ---------------------------------------------------------------------------

\* ModelViewSet.update with AvailabilitySerializer on row id of the caller's
\* queryset; start_time or end_time is NULL when a partial update leaves it
\* out, and validate then fails on attrs['start_time'] / attrs['end_time']
AvailabilityUpdate(user, id, start_time, end_time, partial) ==
    /\ id \in DOMAIN availabilities
    /\ IF availabilities[id].user # user
       THEN /\ resp' = [op |-> "availability_update", status |-> 404]
            /\ UNCHANGED availabilities
       ELSE IF ~partial /\ (start_time = NULL \/ end_time = NULL)
       THEN /\ resp' = [op |-> "availability_update", status |-> 400]
            /\ UNCHANGED availabilities
       ELSE IF start_time = NULL \/ end_time = NULL
       THEN /\ resp' = [op |-> "availability_update", status |-> 500]
            /\ UNCHANGED availabilities
       ELSE IF start_time >= end_time
       THEN /\ resp' = [op |-> "availability_update", status |-> 400]
            /\ UNCHANGED availabilities
       ELSE /\ availabilities' = [availabilities EXCEPT ![id].start_time = start_time,
                                                        ![id].end_time = end_time]
            /\ resp' = [op |-> "availability_update", status |-> 200]
    /\ UNCHANGED <<now, meetings, participantRows, blockedTimes>>
    /\ UNCHANGED notification_vars

\* the times of day the availability requests carry; NULL for a field left out
HoursInputs == {NULL, time(8, 0), time(18, 0)}

NextHours ==
    \/ \E user \in Users, attrs \in AvailabilityInputs : AvailabilityCreate(user, attrs)
    \/ \E user \in Users, id \in 1..MaxAvail, start_time \in HoursInputs,
          end_time \in HoursInputs, partial \in BOOLEAN :
          AvailabilityUpdate(user, id, start_time, end_time, partial)
    \/ \E user \in Users, start_time \in HoursInputs \ {NULL},
          end_time \in HoursInputs \ {NULL} :
          SetBusinessHours(user, start_time, end_time)

SpecHours == Init /\ [][NextHours]_vars

\* C23: after any sequence of availability create, update and
\* set_business_hours requests that succeed, every stored availability window
\* has start_time < end_time
C23_StoredWindowOrdered ==
    \A id \in DOMAIN availabilities :
        availabilities[id].start_time < availabilities[id].end_time

\* set_business_hours has replaced the weekday rows of a user
C23_Witness ==
    /\ resp.op = "set_business_hours"
    /\ resp.status = 200
    /\ \E user \in Users :
          \A day \in 0..4 :
             \E id \in DOMAIN availabilities :
                availabilities[id].user = user /\ availabilities[id].day_of_week = day

\* ---------------------------------------------------------------------------
\* check_meeting_conflicts called twice
\* ---------------------------------------------------------------------------

\* time passes between two requests, six hours at a time; nothing is stored
ClockAdvance ==
    /\ now < NowStart + Hours(6) * MaxAdvances
    /\ now' = now + Hours(6)
    /\ UNCHANGED <<meetings, participantRows, blockedTimes, availabilities, resp>>
    /\ UNCHANGED notification_vars

\* a first call of check_meeting_conflicts; the answer is kept with the
\* instant and the UTC calendar date of the call
FirstCheck(user, meeting_data) ==
    /\ resp' = [op |-> "first_check", user |-> user, meeting_data |-> meeting_data,
                at |-> now, date |-> DateOf([t |-> now, off |-> 0]),
                result |-> check_meeting_conflicts(meeting_data, user)]
    /\ UNCHANGED <<now, meetings, participantRows, blockedTimes, availabilities>>
    /\ UNCHANGED notification_vars

\* the same call again, with no write to the data since the first one
SecondCheck ==
    /\ resp.op = "first_check"
    /\ resp' = [op |-> "second_check", user |-> resp.user,
                meeting_data |-> resp.meeting_data,
                first_at |-> resp.at, second_at |-> now,
                same_date |-> resp.date = DateOf([t |-> now, off |-> 0]),
                first |-> resp.result,
                second |-> check_meeting_conflicts(resp.meeting_data, resp.user)]
    /\ UNCHANGED <<now, meetings, participantRows, blockedTimes, availabilities>>
    /\ UNCHANGED notification_vars

NextTwice ==
    \/ /\ resp.op # "first_check"
       /\ \E attrs \in AvailabilityInputs : AvailabilityCreate("u1", attrs)
    \/ /\ resp.op # "first_check"
       /\ \E user \in Users, attrs \in BlockedInputs : BlockedTimeCreate(user, attrs)
    \/ ClockAdvance
    \/ /\ resp.op # "first_check"
       /\ \E w \in CandidateWindows, participants \in CandidateParticipants :
             FirstCheck("u1", CandidateData(w, participants))
    \/ SecondCheck

SpecTwice == Init /\ [][NextTwice]_vars

Get(dict, key, default) == IF key \in DOMAIN dict THEN dict[key] ELSE default

\* what check_meeting_conflicts reads from the dict it is given: start_time,
\* and end_time, duration_minutes, participants and exclude_meeting_id by .get
ServiceData(meeting_data) ==
    [start_time |-> meeting_data.start_time,
     end_time |-> Get(meeting_data, "end_time", NoDatetime),
     duration_minutes |-> Get(meeting_data, "duration_minutes", 30),
     participants |-> Get(meeting_data, "participants", <<>>),
     exclude_meeting_id |-> Get(meeting_data, "exclude_meeting_id", NoId)]

\* the validated data of ConflictCheckSerializer: its declared fields, with
\* exclude_meeting_id left out of the request
ConflictCheckData(w, participant_ids) ==
    [start_time |-> w.start_time, end_time |-> w.end_time,
     duration_minutes |-> 30, participant_ids |-> participant_ids]

\* ConflictCheckView.post: the validated data goes to check_meeting_conflicts
\* as it is
ConflictCheck(user, data) ==
    /\ \E conflicts \in {check_meeting_conflicts(ServiceData(data), user)} :
          resp' = [op |-> "conflict_check", status |-> 200, user |-> user,
                   request |-> data,
                   has_conflicts |-> conflicts.has_any_conflicts,
                   data |-> conflicts]
    /\ UNCHANGED <<now, meetings, participantRows, blockedTimes, availabilities>>
    /\ UNCHANGED notification_vars

EndpointParticipants == {<<>>, <<"u2">>, <<"u1", "u2">>}

NextEndpoint ==
    \/ \E user \in Users, attrs \in BlockedInputs : BlockedTimeCreate(user, attrs)
    \/ \E w \in MeetingWindows, participant_ids \in ParticipantLists, force_create \in BOOLEAN :
          MeetingCreate("u1", MeetingData(w, participant_ids, force_create))
    \/ \E user \in Users, w \in MeetingWindows, participant_ids \in EndpointParticipants :
          ConflictCheck(user, ConflictCheckData(w, participant_ids))

SpecEndpoint == Init /\ [][NextEndpoint]_vars

\* C25: the conflict-check endpoint, given participant_ids of whom one has an
\* active meeting or blocked time overlapping the candidate, answers
\* has_conflicts = true with that participant in participant_conflicts, as
\* meeting creation does for the same candidate and participants
C25_EndpointChecksParticipants ==
    resp.op = "conflict_check" =>
        /\ \A p \in Elems(resp.request.participant_ids) :
              get_all_conflicts(p, PersonDetectorTz(p), resp.request.start_time,
                                resp.request.end_time, NoId).has_conflicts
                 => /\ resp.has_conflicts
                    /\ p \in DOMAIN resp.data.participant_conflicts
        /\ resp.data.participant_conflicts =
              RequestConflicts(resp.user, resp.request).participant_conflicts
        /\ resp.has_conflicts = RequestConflicts(resp.user, resp.request).has_any_conflicts

\* the endpoint was asked about a participant who has a conflict in the window
C25_Witness ==
    /\ resp.op = "conflict_check"
    /\ \E p \in Elems(resp.request.participant_ids) :
          get_all_conflicts(p, PersonDetectorTz(p), resp.request.start_time,
                            resp.request.end_time, NoId).has_conflicts

\* ---------------------------------------------------------------------------
\* get_all_conflicts, one query at a time, with other requests in between
\* ---------------------------------------------------------------------------

\* the call enters get_all_conflicts; query counts the queries already made
ReportStart(user, tz, start_time, end_time) ==
    /\ resp' = [op |-> "report_scan", user |-> user, tz |-> tz,
                start_time |-> start_time, end_time |-> end_time,
                exclude_meeting_id |-> NoId, query |-> 0,
                conflicting_meetings |-> <<>>, blocked_times |-> <<>>,
                within_availability |-> TRUE]
    /\ UNCHANGED <<now, meetings, participantRows, blockedTimes, availabilities>>
    /\ UNCHANGED notification_vars

\* the dict get_all_conflicts returns, as the response of the call
ReportResult(scan, has_conflicts) ==
    [op |-> "get_all_conflicts", user |-> scan.user, tz |-> scan.tz,
     start_time |-> scan.start_time, end_time |-> scan.end_time,
     exclude_meeting_id |-> scan.exclude_meeting_id,
     report |-> [conflicting_meetings |-> scan.conflicting_meetings,
                 blocked_times |-> scan.blocked_times,
                 within_availability |-> scan.within_availability,
                 has_conflicts |-> has_conflicts]]

\* the next value of the dict literal is evaluated: check_conflicts,
\* check_blocked_times, check_availability_window, then for has_conflicts
\* check_conflicts again and, when that is empty, check_blocked_times again
ReportStep ==
    /\ resp.op = "report_scan"
    /\ resp' =
         IF resp.query = 0
         THEN [resp EXCEPT !.query = 1,
                           !.conflicting_meetings =
                               check_conflicts(resp.user, resp.start_time, resp.end_time,
                                               resp.exclude_meeting_id)]
         ELSE IF resp.query = 1
         THEN [resp EXCEPT !.query = 2,
                           !.blocked_times =
                               check_blocked_times(resp.user, resp.start_time,
                                                   resp.end_time)]
         ELSE IF resp.query = 2
         THEN [resp EXCEPT !.query = 3,
                           !.within_availability =
                               check_availability_window(resp.user, resp.tz,
                                                         resp.start_time, resp.end_time)]
         ELSE IF resp.query = 3
         THEN IF check_conflicts(resp.user, resp.start_time, resp.end_time,
                                 resp.exclude_meeting_id) # <<>>
              THEN ReportResult(resp, TRUE)
              ELSE [resp EXCEPT !.query = 4]
         ELSE ReportResult(resp, check_blocked_times(resp.user, resp.start_time,
                                                     resp.end_time) # <<>>)
    /\ UNCHANGED <<now, meetings, participantRows, blockedTimes, availabilities>>
    /\ UNCHANGED notification_vars

\* another request stores a blocked time while the call runs
OtherBlockedTimeCreate(user, attrs) ==
    /\ Len(blockedTimes) < MaxBlocked
    /\ attrs.start_datetime.t < attrs.end_datetime.t
    /\ blockedTimes' = Append(blockedTimes,
                              [user |-> user,
                               start_datetime |-> attrs.start_datetime.t,
                               end_datetime |-> attrs.end_datetime.t])
    /\ UNCHANGED <<now, meetings, participantRows, availabilities, resp>>
    /\ UNCHANGED notification_vars

\* another request deletes the blocked time stored last
OtherBlockedTimeDelete ==
    /\ blockedTimes # <<>>
    /\ blockedTimes' = SubSeq(blockedTimes, 1, Len(blockedTimes) - 1)
    /\ UNCHANGED <<now, meetings, participantRows, availabilities, resp>>
    /\ UNCHANGED notification_vars

\* another request creates a meeting (force_create) while the call runs
OtherMeetingCreate(user, w) ==
    /\ Len(meetings) < MaxMeetings
    /\ meetings' = Append(meetings,
                          [organizer |-> user,
                           start_time |-> w.start_time.t,
                           end_time |-> w.end_time.t,
                           duration_minutes |-> (w.end_time.t - w.start_time.t) \div 60,
                           status |-> "scheduled",
                           is_deleted |-> FALSE])
    /\ UNCHANGED <<now, participantRows, blockedTimes, availabilities, resp>>
    /\ UNCHANGED notification_vars

\* another request soft-deletes a meeting while the call runs
OtherMeetingDestroy(id) ==
    /\ id \in DOMAIN meetings
    /\ ~meetings[id].is_deleted
    /\ meetings' = [meetings EXCEPT ![id].is_deleted = TRUE]
    /\ UNCHANGED <<now, participantRows, blockedTimes, availabilities, resp>>
    /\ UNCHANGED notification_vars

NextRace ==
    \/ \E attrs \in BlockedInputs : OtherBlockedTimeCreate("u1", attrs)
    \/ OtherBlockedTimeDelete
    \/ \E w \in MeetingWindows : OtherMeetingCreate("u1", w)
    \/ \E id \in 1..MaxMeetings : OtherMeetingDestroy(id)
    \/ /\ resp.op # "report_scan"
       /\ \E w \in ConflictQueries :
             ReportStart("u1", "Africa/Nairobi", w.start_time, w.end_time)
    \/ ReportStep

SpecRace == Init /\ [][NextRace]_vars

\* C26: a report of get_all_conflicts is consistent even when meetings or
\* blocked times of the person are created, cancelled or deleted while the
\* call runs: has_conflicts is true exactly when conflicting_meetings or
\* blocked_times of the same report is not empty
C26_ReportConsistent ==
    resp.op = "get_all_conflicts" =>
        (resp.report.has_conflicts <=>
            (resp.report.conflicting_meetings # <<>>
               \/ resp.report.blocked_times # <<>>))

\* a call has answered with a conflict in its lists
C26_Witness ==
    /\ resp.op = "get_all_conflicts"
    /\ resp.report.has_conflicts
    /\ resp.report.blocked_times # <<>>

\* ---------------------------------------------------------------------------
\* Meeting destroy and restore
\* ---------------------------------------------------------------------------

\* SoftDeleteModel.restore on a soft-deleted meeting: is_deleted is cleared and
\* saved with update_fields is_deleted, deleted_at, updated_at
MeetingRestore(id) ==
    /\ id \in DOMAIN meetings
    /\ meetings[id].is_deleted
    /\ meetings' = [meetings EXCEPT ![id].is_deleted = FALSE]
    /\ resp' = [op |-> "meeting_restore", id |-> id]
    /\ UNCHANGED <<now, participantRows, blockedTimes, availabilities>>
    /\ UNCHANGED notification_vars

NextDestroy ==
    \/ \E data \in MeetingInputs : MeetingCreate("u1", data)
    \/ \E user \in Users, id \in 1..MaxMeetings : MeetingDestroy(user, id)
    \/ \E id \in 1..MaxMeetings : MeetingRestore(id)
    \/ /\ ~IsReport
       /\ \E user \in Users, w \in ConflictQueries :
             GetAllConflicts(user, UserTimezone(user), w.start_time, w.end_time, NoId)

SpecDestroy == Init /\ [][NextDestroy]_vars

\* meeting id is among the conflicts its organizer gets for the meeting's own
\* window
CountsForOrganizer(id) ==
    \E k \in DOMAIN check_conflicts(meetings[id].organizer,
                                    [t |-> meetings[id].start_time, off |-> 0],
                                    [t |-> meetings[id].end_time, off |-> 0], NoId) :
        check_conflicts(meetings[id].organizer,
                        [t |-> meetings[id].start_time, off |-> 0],
                        [t |-> meetings[id].end_time, off |-> 0], NoId)[k] = id

\* C27: after a successful MeetingViewSet.destroy the stored meeting has
\* is_deleted = true and status cancelled; it does not count toward conflict
\* detection, and does not count after a later restore() either
C27_DestroyCancels ==
    /\ (resp.op = "meeting_destroy" /\ resp.status = 200) =>
          /\ meetings[resp.id].is_deleted
          /\ meetings[resp.id].status = "cancelled"
          /\ ~CountsForOrganizer(resp.id)
    /\ resp.op = "meeting_restore" => ~CountsForOrganizer(resp.id)

\* a destroyed meeting has been restored
C27_Witness ==
    /\ resp.op = "meeting_restore"
    /\ ~meetings[resp.id].is_deleted

\* ---------------------------------------------------------------------------
\* Length of the suggested alternatives
\* ---------------------------------------------------------------------------

\* candidates of 30 and of 60 minutes
LengthWindows ==
    {Window(At(DateOn(0), 10, 0, "Africa/Nairobi"), At(DateOn(0), 10, 30, "Africa/Nairobi")),
     Window(At(DateOn(0), 10, 0, "Africa/Nairobi"), At(DateOn(0), 11, 0, "Africa/Nairobi"))}

\* the dicts given to check_meeting_conflicts: without duration_minutes, and
\* with a duration_minutes of 30 or 60 whatever the window
LengthData ==
    {[start_time |-> w.start_time, end_time |-> w.end_time, participants |-> <<>>] :
        w \in LengthWindows}
      \cup {[start_time |-> w.start_time, end_time |-> w.end_time,
             participants |-> <<>>, duration_minutes |-> d] :
               w \in LengthWindows, d \in {30, 60}}

NextLength ==
    \/ \E user \in Users, attrs \in BlockedInputs : BlockedTimeCreate(user, attrs)
    \/ \E input \in SuggestAvailabilityInputs : AvailabilityCreate(input[1], input[2])
    \/ \E w \in MeetingWindows :
          MeetingCreate("u1", MeetingData(w, <<>>, TRUE))
    \/ /\ ~IsServiceResult
       /\ \E meeting_data \in LengthData :
             CheckMeetingConflicts("u1", ServiceData(meeting_data))

SpecLength == Init /\ [][NextLength]_vars

\* C28: when check_meeting_conflicts finds conflicts for a candidate with
\* start_time and end_time, every suggested alternative is as long as the
\* candidate window, end_time - start_time, with or without duration_minutes
\* and whatever its value
C28_AlternativesKeepLength ==
    (IsCheckResult /\ resp.result.has_any_conflicts) =>
        \A slot \in Elems(resp.result.suggested_alternatives) :
            slot.end_time.t - slot.start_time.t =
                resp.meeting_data.end_time.t - resp.meeting_data.start_time.t

\* a candidate with conflicts got alternatives
C28_Witness ==
    /\ IsCheckResult
    /\ resp.result.has_any_conflicts
    /\ resp.result.suggested_alternatives # <<>>

\* ---------------------------------------------------------------------------
\* Notifications: preferences and scheduled reminders
\* ---------------------------------------------------------------------------

\* NotificationPreference.should_send_email: the mapping from kind to stored
\* flag, and mapping.get(notification_type, True)
should_send_email(prefs, notification_type) ==
    LET mapping == [invitation |-> prefs.email_invitations,
                    update |-> prefs.email_updates,
                    cancellation |-> prefs.email_cancellations,
                    reminder |-> prefs.email_reminders]
    IN Get(mapping, notification_type, TRUE)

\* NotificationPreference.should_send_sms: mapping.get(notification_type, False)
should_send_sms(prefs, notification_type) ==
    LET mapping == [invitation |-> prefs.sms_invitations,
                    update |-> prefs.sms_updates,
                    cancellation |-> prefs.sms_cancellations,
                    reminder |-> prefs.sms_reminders]
    IN Get(mapping, notification_type, FALSE)

\* the users' contact fields: u1 has an email address and a phone number, u2 a
\* phone number only; both have email_notifications and sms_notifications on
HasEmail(user) == user = "u1"
HasPhone(user) == user \in Users
email_notifications(user) == user \in Users
sms_notifications(user) == user \in Users

\* a NotificationPreference row with the model's defaults, changed in the
\* reminder flags
PreferenceRow(email_reminders, sms_reminders) ==
    [NoPreferences EXCEPT !.stored = TRUE,
                          !.email_reminders = email_reminders,
                          !.sms_reminders = sms_reminders]

\* NotificationPreferenceView: the caller's row is created or updated
SetPreferences(user, prefs) ==
    /\ preferences' = [preferences EXCEPT ![user] = prefs]
    /\ resp' = [op |-> "set_preferences", user |-> user]
    /\ UNCHANGED <<now, meetings, participantRows, blockedTimes, availabilities,
                   accepted, notifications, deliveries, runs>>

\* a caller asks the stored row of a user whether a kind goes out on a channel
ShouldSend(user, channel, notification_type) ==
    /\ preferences[user].stored
    /\ resp' = [op |-> "should_send", user |-> user, channel |-> channel,
                notification_type |-> notification_type,
                allowed |-> IF channel = "email"
                            THEN should_send_email(preferences[user], notification_type)
                            ELSE should_send_sms(preferences[user], notification_type)]
    /\ UNCHANGED <<now, meetings, participantRows, blockedTimes, availabilities>>
    /\ UNCHANGED notification_vars

\* MeetingViewSet.respond with response_status accepted
RespondAccepted(user, id) ==
    /\ id \in VisibleMeetings(user)
    /\ IF [meeting |-> id, user |-> user] \in participantRows
       THEN /\ accepted' = accepted \cup {[meeting |-> id, user |-> user]}
            /\ resp' = [op |-> "respond", status |-> 200]
       ELSE /\ resp' = [op |-> "respond", status |-> 400]
            /\ UNCHANGED accepted
    /\ UNCHANGED <<now, meetings, participantRows, blockedTimes, availabilities,
                   preferences, notifications, deliveries, runs>>

\* fifteen minutes pass
QuarterPasses ==
    /\ now < NowStart + Minutes(15) * MaxQuarters
    /\ now' = now + Minutes(15)
    /\ UNCHANGED <<meetings, participantRows, blockedTimes, availabilities, resp>>
    /\ UNCHANGED notification_vars

\* the reminder windows, in minutes before the start
reminder_windows == <<<<30, 35>>, <<15, 20>>, <<5, 10>>>>

\* the people a run reminds for meeting id: the organizer, then the
\* participants who accepted
Recipients(id) ==
    <<meetings[id].organizer>>
      \o UserList({user \in Users : [meeting |-> id, user |-> user] \in accepted})

\* the calls of _send_reminder_to_user a run started at instant t makes, in
\* order: for every window, for every scheduled meeting starting in it
RECURSIVE MeetingTargets(_)
MeetingTargets(ids) ==
    IF ids = <<>> THEN <<>>
    ELSE [k \in 1..Len(Recipients(Head(ids))) |->
             [meeting |-> Head(ids), user |-> Recipients(Head(ids))[k]]]
           \o MeetingTargets(Tail(ids))

RECURSIVE ReminderTargets(_, _)
ReminderTargets(t, k) ==
    IF k > Len(reminder_windows) THEN <<>>
    ELSE MeetingTargets(
             list([id \in {i \in DOMAIN meetings :
                             /\ meetings[i].start_time >= t + Minutes(reminder_windows[k][1])
                             /\ meetings[i].start_time < t + Minutes(reminder_windows[k][2])
                             /\ meetings[i].status = "scheduled"
                             /\ meetings[i].is_deleted = FALSE} |-> 1]))
           \o ReminderTargets(t, k + 1)

\* a run of send_scheduled_reminders starts
RunStart(run) ==
    /\ runs[run].pc = "idle"
    /\ \E targets \in {ReminderTargets(now, 1)} :
          runs' = [runs EXCEPT ![run] =
                      [pc |-> IF targets = <<>> THEN "done" ELSE "check",
                       now |-> now, targets |-> targets, target |-> 1]]
    /\ UNCHANGED <<now, meetings, participantRows, blockedTimes, availabilities, resp,
                   accepted, preferences, notifications, deliveries>>

\* the run is past its current call of _send_reminder_to_user
NextTarget(r) ==
    IF r.target < Len(r.targets)
    THEN [r EXCEPT !.target = @ + 1, !.pc = "check"]
    ELSE [r EXCEPT !.pc = "done"]

\* _send_reminder_to_user: the query for a reminder notification of the user
\* and the meeting created within the last hour
RunCheck(run) ==
    /\ runs[run].pc = "check"
    /\ LET call == runs[run].targets[runs[run].target]
           existing == \E n \in notifications :
                          /\ n.user = call.user
                          /\ n.meeting = call.meeting
                          /\ n.created_at >= now - Hours(1)
       IN runs' = [runs EXCEPT ![run] =
                      IF existing THEN NextTarget(@) ELSE [@ EXCEPT !.pc = "email"]]
    /\ UNCHANGED <<now, meetings, participantRows, blockedTimes, availabilities, resp,
                   accepted, preferences, notifications, deliveries>>

\* _send_reminder_to_user: the email reminder and its Notification row
RunEmail(run) ==
    /\ runs[run].pc = "email"
    /\ LET call == runs[run].targets[runs[run].target]
           prefs == preferences[call.user]
       IN IF /\ HasEmail(call.user) /\ email_notifications(call.user)
             /\ (~prefs.stored \/ should_send_email(prefs, "reminder"))
          THEN /\ deliveries' = deliveries \cup
                     {[user |-> call.user, meeting |-> call.meeting, channel |-> "email",
                       at |-> now, run |-> run, target |-> runs[run].target]}
               /\ notifications' = notifications \cup
                     {[user |-> call.user, meeting |-> call.meeting, created_at |-> now]}
          ELSE UNCHANGED <<deliveries, notifications>>
    /\ runs' = [runs EXCEPT ![run].pc = "sms"]
    /\ UNCHANGED <<now, meetings, participantRows, blockedTimes, availabilities, resp,
                   accepted, preferences>>

\* _send_reminder_to_user: the SMS reminder, which stores no Notification row
RunSms(run) ==
    /\ runs[run].pc = "sms"
    /\ LET call == runs[run].targets[runs[run].target]
           prefs == preferences[call.user]
       IN IF /\ HasPhone(call.user) /\ sms_notifications(call.user)
             /\ (~prefs.stored \/ should_send_sms(prefs, "reminder"))
          THEN deliveries' = deliveries \cup
                     {[user |-> call.user, meeting |-> call.meeting, channel |-> "sms",
                       at |-> now, run |-> run, target |-> runs[run].target]}
          ELSE UNCHANGED deliveries
    /\ runs' = [runs EXCEPT ![run] = NextTarget(@)]
    /\ UNCHANGED <<now, meetings, participantRows, blockedTimes, availabilities, resp,
                   accepted, preferences, notifications>>

\* no run of send_scheduled_reminders has started
NoRunStarted == \A run \in 1..MaxRuns : runs[run].pc = "idle"

\* a meeting that starts 32 minutes after the first instant of the model
ReminderMeeting(participant_ids) ==
    MeetingData(Window([t |-> NowStart + Minutes(32), off |-> 0],
                       [t |-> NowStart + Minutes(62), off |-> 0]),
                participant_ids, TRUE)

NextReminders ==
    \/ /\ NoRunStarted /\ meetings = <<>>
       /\ \E participant_ids \in ParticipantLists :
             MeetingCreate("u1", ReminderMeeting(participant_ids))
    \/ /\ NoRunStarted
       /\ \E user \in Users, id \in 1..MaxMeetings : RespondAccepted(user, id)
    \/ /\ NoRunStarted
       /\ \E email_reminders \in BOOLEAN :
             SetPreferences("u1", PreferenceRow(email_reminders, TRUE))
    \/ QuarterPasses
    \/ \E run \in 1..MaxRuns : RunStart(run)
    \/ \E run \in 1..MaxRuns : RunCheck(run)
    \/ \E run \in 1..MaxRuns : RunEmail(run)
    \/ \E run \in 1..MaxRuns : RunSms(run)

SpecReminders == Init /\ [][NextReminders]_vars

\* two reminders went out in different calls of _send_reminder_to_user
DifferentCalls(d, e) == <<d.run, d.target>> # <<e.run, e.target>>

\* C29: across the runs of send_scheduled_reminders, overlapping ones
\* included, a user who was sent a reminder for a meeting within the last
\* hour is not sent another one for that meeting on any channel; this holds
\* for a user who is organizer and accepted participant and for a user who
\* gets reminders by SMS only
C29_NoSecondReminderWithinHour ==
    \A d \in deliveries, e \in deliveries :
        (d.user = e.user /\ d.meeting = e.meeting /\ DifferentCalls(d, e)
           /\ d.at <= e.at)
          => e.at - d.at > Hours(1)

\* two runs have finished, and a reminder went out
C29_Witness ==
    /\ \A run \in 1..MaxRuns : runs[run].pc = "done"
    /\ deliveries # {}
    /\ notifications # {}

\* ---------------------------------------------------------------------------
\* Preference gating
\* ---------------------------------------------------------------------------

\* preference rows: the defaults, every flag off, every flag on, and the
\* defaults with the reminder flags changed
PreferenceInputs ==
    {PreferenceRow(e, s) : e \in BOOLEAN, s \in BOOLEAN}
      \cup {[stored |-> TRUE,
             email_invitations |-> b, email_updates |-> b,
             email_cancellations |-> b, email_reminders |-> b,
             sms_invitations |-> b, sms_updates |-> b,
             sms_cancellations |-> b, sms_reminders |-> b] : b \in BOOLEAN}

\* the kinds callers ask about: the four known ones and one that is not known
NotificationKinds == {"invitation", "update", "cancellation", "reminder", "digest"}

NextGate ==
    \/ \E user \in Users, prefs \in PreferenceInputs : SetPreferences(user, prefs)
    \/ \E user \in Users, channel \in {"email", "sms"}, kind \in NotificationKinds :
          ShouldSend(user, channel, kind)

SpecGate == Init /\ [][NextGate]_vars

\* the stored flag of a row for a channel and a known kind
StoredFlag(prefs, channel, kind) ==
    CASE channel = "email" /\ kind = "invitation" -> prefs.email_invitations
      [] channel = "email" /\ kind = "update" -> prefs.email_updates
      [] channel = "email" /\ kind = "cancellation" -> prefs.email_cancellations
      [] channel = "email" /\ kind = "reminder" -> prefs.email_reminders
      [] channel = "sms" /\ kind = "invitation" -> prefs.sms_invitations
      [] channel = "sms" /\ kind = "update" -> prefs.sms_updates
      [] channel = "sms" /\ kind = "cancellation" -> prefs.sms_cancellations
      [] channel = "sms" /\ kind = "reminder" -> prefs.sms_reminders

\* C30: preference gating answers, for a known kind (invitation, update,
\* cancellation, reminder), that kind's stored flag for the channel, and for a
\* kind it does not know allow (true) on both channels, email and SMS
C30_GateMapsKindToFlag ==
    resp.op = "should_send" =>
        resp.allowed =
            IF resp.notification_type \in {"invitation", "update", "cancellation",
                                           "reminder"}
            THEN StoredFlag(preferences[resp.user], resp.channel,
                            resp.notification_type)
            ELSE TRUE

\* a row with a flag changed from its default was asked about a known kind
C30_Witness ==
    /\ resp.op = "should_send"
    /\ resp.notification_type = "reminder"
    /\ resp.channel = "sms"
    /\ ~resp.allowed

====
